---- MODULE Spec2Model ----
(***************************************************************************)
(* Launch builder of NadLabs: the BlueprintModal component (builder state, *)
(* packLaunchTx, signAndLaunch, reset, persistence) and the nad.fun        *)
(* service calls it chains, and the relay server in front of nad.fun.      *)
(*                                                                         *)
(* The strings the component trims and parses are sequences of             *)
(* one-character strings, so that trim(), length and the decimal parsers   *)
(* work on them as the code does.  A bigint is a                           *)
(* record [neg, mag]: a sign and the decimal digits (most significant      *)
(* first, no leading zero, zero is <<0>>), so that no width is lost.       *)
(* The code reads of the BuildLog only whether it is empty                 *)
(* (buildLogs.length), so buildLogs is TRUE when the log has a line; the   *)
(* text of a line (without the clock prefix that addToLog puts in front)   *)
(* is kept with the invocation that wrote it.                              *)
(***************************************************************************)
EXTENDS Integers, Sequences, FiniteSets, TLC

(***************************************************************************)
(* Bounds of the model                                                     *)
(***************************************************************************)
MaxPacks == 2       \* packLaunchTx invocations past the guard, when only packing
MaxSigns == 2       \* signAndLaunch invocations past the guard, in a session
SessionPacks == 1   \* packLaunchTx invocations past the guard, in a session
SubmitPacks == 1    \* packLaunchTx invocations past the guard, before a submit
SubmitSigns == 1    \* signAndLaunch invocations past the guard, after a pack
MaxGens == 1        \* generation calls of one kind in flight at once
MaxLogs == 4        \* logs in a transaction receipt
MaxConns == 1       \* requests the relay takes in a run

(***************************************************************************)
(* Program constants                                                       *)
(***************************************************************************)
NameMax == 20         \* trimmedName.length > 20
SymbolMax == 10       \* trimmedSymbol.length > 10
EtherDecimals == 18   \* parseEther / formatEther: 18-decimal native units
LogoCount == 4        \* buildLogoSet: Array.from({ length: 4 })

Null == "null"             \* JavaScript null

(***************************************************************************)
(* Strings                                                                 *)
(***************************************************************************)
RECURSIVE Rep(_, _)
Rep(c, n) == IF n = 0 THEN <<>> ELSE <<c>> \o Rep(c, n - 1)

Str0 == <<"0">>
Str0p1 == <<"0", ".", "1">>
Str1p25 == <<"1", ".", "2", "5">>
StrNeg1 == <<"-", "1">>
StrBad == <<"1", "x">>
StrPad0p1 == <<" ", "0", ".", "1", " ">>
StrBlank == <<" ">>

DigitChars == <<"0", "1", "2", "3", "4", "5", "6", "7", "8", "9">>
IsDigit(c) == \E i \in 1..10 : DigitChars[i] = c
DigitVal(c) == (CHOOSE i \in 1..10 : DigitChars[i] = c) - 1

RECURSIVE TrimStart(_)
TrimStart(s) == IF s # <<>> /\ Head(s) = " " THEN TrimStart(Tail(s)) ELSE s

RECURSIVE TrimEnd(_)
TrimEnd(s) ==
  IF s # <<>> /\ s[Len(s)] = " " THEN TrimEnd(SubSeq(s, 1, Len(s) - 1)) ELSE s

\* String.prototype.trim
Trim(s) == TrimEnd(TrimStart(s))

(***************************************************************************)
(* Arbitrary-precision integers                                            *)
(***************************************************************************)
RECURSIVE StripZeros(_)
StripZeros(d) == IF Len(d) > 1 /\ Head(d) = 0 THEN StripZeros(Tail(d)) ELSE d

PadLeft(d, n) == Rep(0, n - Len(d)) \o d

MaxOf(a, b) == IF a >= b THEN a ELSE b

RECURSIVE AddDigits(_, _, _, _)
AddDigits(a, b, i, carry) ==
  IF i = 0 THEN (IF carry = 1 THEN <<1>> ELSE <<>>)
  ELSE LET s == a[i] + b[i] + carry
       IN  AddDigits(a, b, i - 1, s \div 10) \o <<s % 10>>

RECURSIVE SubDigits(_, _, _, _)
SubDigits(a, b, i, borrow) ==
  IF i = 0 THEN <<>>
  ELSE LET s == a[i] - b[i] - borrow
       IN  SubDigits(a, b, i - 1, IF s < 0 THEN 1 ELSE 0)
             \o <<IF s < 0 THEN s + 10 ELSE s>>

RECURSIVE LexLess(_, _)
LexLess(a, b) ==
  IF a = <<>> THEN FALSE
  ELSE IF Head(a) # Head(b) THEN Head(a) < Head(b)
  ELSE LexLess(Tail(a), Tail(b))

MagLess(a, b) == Len(a) < Len(b) \/ (Len(a) = Len(b) /\ LexLess(a, b))

AddMag(a, b) ==
  LET n == MaxOf(Len(a), Len(b))
  IN  StripZeros(AddDigits(PadLeft(a, n), PadLeft(b, n), n, 0))

\* a - b for magnitudes with a >= b
SubMag(a, b) ==
  LET n == Len(a)
  IN  StripZeros(SubDigits(a, PadLeft(b, n), n, 0))

Big(neg, mag) == [neg |-> neg /\ mag # <<0>>, mag |-> mag]
BigZero == Big(FALSE, <<0>>)

\* bigint + bigint
BigAdd(x, y) ==
  IF x.neg = y.neg THEN Big(x.neg, AddMag(x.mag, y.mag))
  ELSE IF MagLess(x.mag, y.mag) THEN Big(y.neg, SubMag(y.mag, x.mag))
  ELSE Big(x.neg, SubMag(x.mag, y.mag))

\* bigint > 0n
BigPositive(x) == ~x.neg /\ x.mag # <<0>>

\* 10^n as a bigint
BigPow10(n) == Big(FALSE, <<1>> \o Rep(0, n))

\* bigint.toString(): the decimal digits, "-" in front of a negative value
BigToString(x) ==
  (IF x.neg THEN <<"-">> ELSE <<>>)
    \o [i \in 1..Len(x.mag) |-> DigitChars[x.mag[i] + 1]]

AllDigits(s) == \A i \in 1..Len(s) : IsDigit(s[i])

\* BigInt(string) for the strings toString() produces and the '0' fallback:
\* an optional sign and decimal digits (anything else is a SyntaxError)
BigIntOfStringOk(s) ==
  LET body == IF s # <<>> /\ Head(s) = "-" THEN Tail(s) ELSE s
  IN  body # <<>> /\ AllDigits(body)

BigIntOfString(s) ==
  LET neg == s # <<>> /\ Head(s) = "-"
      body == IF neg THEN Tail(s) ELSE s
  IN  Big(neg, StripZeros([i \in 1..Len(body) |-> DigitVal(body[i])]))

(***************************************************************************)
(* parseEther (viem parseUnits with 18 decimals), for strings whose        *)
(* fraction has at most 18 digits                                          *)
(***************************************************************************)
DotAt(s) == IF \E i \in 1..Len(s) : s[i] = "."
            THEN CHOOSE i \in 1..Len(s) : s[i] = "." /\ \A j \in 1..(i - 1) : s[j] # "."
            ELSE 0

\* /^(-?)([0-9]*)\.?([0-9]*)$/
ParseEtherOk(s) ==
  LET body == IF s # <<>> /\ Head(s) = "-" THEN Tail(s) ELSE s
      d == DotAt(body)
  IN  IF d = 0 THEN AllDigits(body)
      ELSE AllDigits(SubSeq(body, 1, d - 1)) /\ AllDigits(SubSeq(body, d + 1, Len(body)))

RECURSIVE StripTrailingZeroChars(_)
StripTrailingZeroChars(s) ==
  IF s # <<>> /\ s[Len(s)] = "0"
  THEN StripTrailingZeroChars(SubSeq(s, 1, Len(s) - 1)) ELSE s

ParseEther(s) ==
  LET neg == s # <<>> /\ Head(s) = "-"
      body == IF neg THEN Tail(s) ELSE s
      d == DotAt(body)
      integer == IF d = 0 THEN body ELSE SubSeq(body, 1, d - 1)
      fraction0 == IF d = 0 THEN <<"0">> ELSE SubSeq(body, d + 1, Len(body))
      fraction == StripTrailingZeroChars(fraction0)
      padded == fraction \o Rep("0", EtherDecimals - Len(fraction))
      all == integer \o padded
  IN  Big(neg, StripZeros([i \in 1..Len(all) |-> DigitVal(all[i])]))


(***************************************************************************)
(* Values of the builder                                                   *)
(***************************************************************************)
None == <<>>                 \* null: an absent PackedLaunch, no tx hash
Some(x) == <<x>>

IdeaTitle == <<"N", "a", "d">>             \* idea.title
Name21 == Rep("a", NameMax + 1)            \* too long
NamePadded == <<" ">> \o Rep("a", NameMax) \* NameMax + 1 chars, NameMax after trim()
SymNad == <<"N", "A", "D">>
Sym11 == Rep("S", SymbolMax + 1)
SymPadded == Rep("S", SymbolMax) \o <<" ">>

\* data URLs, by the part of them dataUrlToBlob looks at
SvgDataUrl == "data:image/svg+xml;base64,"
PngDataUrl == "data:image/png;base64,"
GifDataUrl == "data:image/gif;base64,"
NoDataUrl == ""

\* dataUrlToBlob: the blob's mime type, or Null when neither pattern matches
dataUrlToBlob(url) ==
  CASE url = SvgDataUrl -> "image/svg+xml"
    [] url = PngDataUrl -> "image/png"
    [] OTHER -> Null

\* buildLogoSet: LogoCount svg data URLs
buildLogoSet == [i \in 1..LogoCount |-> SvgDataUrl]

\* chains and networks
MonadTestnet == "monadTestnet"     \* monadTestnet.id
OtherChain == "otherChain"
MonadMainnet == "monad"
NADFUN_NETWORK == "mainnet"
NADFUN_CONTRACTS ==
  [testnet |-> [BONDING_CURVE_ROUTER |-> "0x8650", LENS |-> "0xB056", CURVE |-> "0x1228"],
   mainnet |-> [BONDING_CURVE_ROUTER |-> "0x6F6B", LENS |-> "0x7e78", CURVE |-> "0xA728"]]

\* the chain each nad.fun deployment is on: the keys of NadfunNetwork name it
NetworkChain == [testnet |-> MonadTestnet, mainnet |-> MonadMainnet]

AddrA == "0xAAAA"
AddrB == "0xBBBB"
NoAddress == ""                    \* useAccount().address undefined

\* what the wagmi hooks return: useAccount, useChainId, usePublicClient
WalletOk(a) == [isConnected |-> TRUE, address |-> a,
                chainId |-> MonadTestnet, publicClient |-> TRUE]
WalletDisconnected == [isConnected |-> FALSE, address |-> NoAddress,
                       chainId |-> MonadTestnet, publicClient |-> TRUE]
WalletWrongChain == [WalletOk(AddrA) EXCEPT !.chainId = OtherChain]
WalletNoClient == [WalletOk(AddrA) EXCEPT !.publicClient = FALSE]
WalletStates == {WalletOk(AddrA), WalletOk(AddrB), WalletDisconnected,
                 WalletWrongChain, WalletNoClient}

\* how the free identifier walletClient of packLaunchTx resolves: the component
\* declares no such binding, so it is looked up in the global scope
WalletClientRefs == {"unresolvable", "falsy", "client"}

\* on-chain values the reads can return
Fee10 == BigPow10(19)
Fee20 == Big(FALSE, <<2>> \o Rep(0, 19))
Fees == {Fee10, Fee20}
QuoteOut == Big(FALSE, <<7>> \o Rep(0, 20))

(***************************************************************************)
(* Builder state                                                           *)
(***************************************************************************)
\* the token form of a fresh component (useState initialiser without storage)
DefaultForm ==
  [name |-> <<>>, symbol |-> <<>>, initialBuyMon |-> Str0p1,
   customLogoData |-> NoDataUrl, useCustomLogo |-> FALSE, dryRun |-> FALSE]

\* the token form handleResetCache sets (it has no initialBuyMon key)
ResetForm == [DefaultForm EXCEPT !.initialBuyMon = <<>>]

\* the builder state of a component mounted on empty storage
EmptyBuilder ==
  [buildStep |-> 0, contractCode |-> "", frontendPrompt |-> "",
   contractAddress |-> Null, logos |-> <<>>, selectedLogo |-> 0,
   tokenForm |-> DefaultForm, packedLaunch |-> None]

\* x || d for strings
OrElse(x, d) == IF x = <<>> THEN d ELSE x

\* the per-field fallbacks applied to a stored token form
LoadForm(f) == [f EXCEPT !.initialBuyMon = OrElse(f.initialBuyMon, Str0p1)]

\* the builder state a component takes from a stored (JSON) builder state
LoadBuilder(st) ==
  IF st = None THEN EmptyBuilder
  ELSE [st[1] EXCEPT !.tokenForm = LoadForm(st[1].tokenForm)]

\* the stage 3 seeding effect's setTokenForm(prev => ...)
SeedSymbol == SymNad
SeedForm(f) ==
  [f EXCEPT !.name = OrElse(f.name, IdeaTitle),
            !.symbol = OrElse(f.symbol, SeedSymbol),
            !.initialBuyMon = OrElse(f.initialBuyMon, Str0p1)]

\* a builder state as a stage 3 session leaves it in storage
Stage3Builder(form) ==
  [buildStep |-> 3, contractCode |-> "code", frontendPrompt |-> "prompt",
   contractAddress |-> Null, logos |-> buildLogoSet, selectedLogo |-> 0,
   tokenForm |-> form, packedLaunch |-> None]

VARIABLES
  bs,               \* BuilderState: the persisted part of the component state
  isPacking,        \* useState(false)
  isMinting,        \* useState(false)
  txHash,           \* useState(null)
  buildLogs,        \* BuildLog
  rendered,         \* the values the last render gave to the handlers' closures
  store,            \* localStorage: the concept's two keys
  wallet,           \* what the wallet hooks return now
  walletClientRef,  \* how `walletClient` resolves in this page
  packs,            \* packLaunchTx invocations, by number
  signs,            \* signAndLaunch invocations, by number
  gens,             \* generateContractCode / generateFrontendPrompt calls in flight
  sent,             \* what went to the wallet and came back: requests and hashes
  ended,            \* the invocation that ended in the last step, if one did
  quota,            \* the invocations this behaviour lets past the guards
  receipts,         \* the receipts waitForTransactionReceipt can return in it
  server            \* the relay: its allow-list, its connections, its fetch calls

vars == <<bs, isPacking, isMinting, txHash, buildLogs, rendered, store, wallet,
          walletClientRef, packs, signs, gens, sent, ended, quota, receipts,
          server>>

\* what a render hands to the closures of its handlers
Snapshot(b, p, m, logs, w) ==
  [bs |-> b, isPacking |-> p, isMinting |-> m, hasLogs |-> logs, wallet |-> w,
   pending |-> FALSE]   \* pending: a render is due before the next event


\* no render is due: the next user event or continuation can run
Idle == ~rendered.pending

\* a user event's state updates are rendered before the next event
Due == [rendered EXCEPT !.pending = TRUE]


(***************************************************************************)
(* packLaunchTx                                                            *)
(*                                                                         *)
(* An invocation is a record: cl is what its closure captured from the     *)
(* render that created it, pc the await it is suspended at ("done" when it *)
(* has ended), calls the external calls it has made, lines the log lines   *)
(* it has passed to addToLog.  One action runs the code between two awaits.*)
(***************************************************************************)
Call(kind, arg) == [kind |-> kind, arg |-> arg]

Say(inv, line) == [inv EXCEPT !.lines = Append(@, line)]
Calling(inv, kind, arg, pc) ==
  [inv EXCEPT !.calls = Append(@, Call(kind, arg)), !.pc = pc]
Ended(inv, outcome) == [inv EXCEPT !.pc = "done", !.outcome = outcome]

\* catch (error) { addToLog(`Pack failed: ...`) } finally
PackFailed(inv, message) == Ended(Say(inv, "Pack failed: " \o message), "failed")

\* an awaited call threw: the same catch block
CallThrew(inv, message) == PackFailed([inv EXCEPT !.threw = TRUE], message)

\* the record packLaunchTx assembles
PackedRecord_FeeOnly(inv) ==
  [network |-> NADFUN_NETWORK,
   contracts |-> NADFUN_CONTRACTS[NADFUN_NETWORK],
   image |-> [imageUri |-> inv.imageUri, mime |-> inv.mime],
   metadata |-> [metadataUri |-> inv.metadataUri],
   salt |-> [salt |-> inv.salt, predictedTokenAddress |-> inv.predicted],
   fee |-> [deployFeeAmount |-> BigToString(inv.fee)],
   initialBuy |-> [amount |-> BigToString(inv.amount)],
   minTokens |-> BigToString(inv.minTokens),
   tx |-> [to |-> NADFUN_CONTRACTS[NADFUN_NETWORK].BONDING_CURVE_ROUTER,
           function |-> "create",
           args |-> [name |-> inv.name, symbol |-> inv.symbol,
                     tokenURI |-> inv.metadataUri,
                     amountOut |-> BigToString(inv.minTokens),
                     salt |-> inv.salt, actionId |-> 1],
           value |-> BigToString(inv.fee)]]

PackedRecord(inv) ==
  LET totalValue == BigAdd(inv.fee, inv.amount)
  IN  [network |-> NADFUN_NETWORK,
       contracts |-> NADFUN_CONTRACTS[NADFUN_NETWORK],
       image |-> [imageUri |-> inv.imageUri, mime |-> inv.mime],
       metadata |-> [metadataUri |-> inv.metadataUri],
       salt |-> [salt |-> inv.salt, predictedTokenAddress |-> inv.predicted],
       fee |-> [deployFeeAmount |-> BigToString(inv.fee)],
       initialBuy |-> [amount |-> BigToString(inv.amount)],
       minTokens |-> BigToString(inv.minTokens),
       tx |-> [to |-> NADFUN_CONTRACTS[NADFUN_NETWORK].BONDING_CURVE_ROUTER,
               function |-> "create",
               args |-> [name |-> inv.name, symbol |-> inv.symbol,
                         tokenURI |-> inv.metadataUri,
                         amountOut |-> BigToString(inv.minTokens),
                         salt |-> inv.salt, actionId |-> 1],
               value |-> BigToString(totalValue)]]

\* from totalValue to the end of the try block
PackAssemble(inv) ==
  Ended(Say([inv EXCEPT !.packed = Some(PackedRecord(inv))], "Packed create tx."),
        "packed")

\* after getFeeConfig has returned: the conditional quote
PackAfterFee_AlwaysQuotes(inv) ==
  Calling(Say(inv, "Calculating initial buy amount out..."),
          "getInitialBuyAmountOut", inv.amount, "quote")

PackAfterFee(inv) ==
  IF BigPositive(inv.amount)
  THEN Calling(Say(inv, "Calculating initial buy amount out..."),
               "getInitialBuyAmountOut", inv.amount, "quote")
  ELSE PackAssemble(inv)

\* String(tokenForm.initialBuyMon || '0').trim()
InitialBuyRaw(form) == Trim(OrElse(form.initialBuyMon, Str0))

\* name, symbol and amount validation, then the image upload call
PackValidate_AnyLength(inv) ==
  LET trimmedName == Trim(inv.cl.form.name)
      trimmedSymbol == Trim(inv.cl.form.symbol)
      raw == InitialBuyRaw(inv.cl.form)
  IN  IF trimmedName = <<>>
      THEN Ended(Say(inv, "Token name is required and must be 1-20 characters."),
                 "invalid")
      ELSE IF trimmedSymbol = <<>>
      THEN Ended(Say(inv, "Token symbol is required and must be 1-10 characters."),
                 "invalid")
      ELSE IF raw # <<>> /\ ~ParseEtherOk(raw)
      THEN Ended(Say(inv, "Invalid initial buy amount. Use a number like 0, 0.1, 1.25"),
                 "invalid")
      ELSE Calling(Say([inv EXCEPT !.name = trimmedName, !.symbol = trimmedSymbol,
                                   !.amount = IF raw # <<>> THEN ParseEther(raw)
                                              ELSE BigZero],
                       "Nad.fun: uploading image..."),
                   "uploadImage", inv.mime, "image")

PackValidate(inv) ==
  LET trimmedName == Trim(inv.cl.form.name)
      trimmedSymbol == Trim(inv.cl.form.symbol)
      raw == InitialBuyRaw(inv.cl.form)
  IN  IF trimmedName = <<>> \/ Len(trimmedName) > NameMax
      THEN Ended(Say(inv, "Token name is required and must be 1-20 characters."),
                 "invalid")
      ELSE IF trimmedSymbol = <<>> \/ Len(trimmedSymbol) > SymbolMax
      THEN Ended(Say(inv, "Token symbol is required and must be 1-10 characters."),
                 "invalid")
      ELSE IF raw # <<>> /\ ~ParseEtherOk(raw)
      THEN Ended(Say(inv, "Invalid initial buy amount. Use a number like 0, 0.1, 1.25"),
                 "invalid")
      ELSE Calling(Say([inv EXCEPT !.name = trimmedName, !.symbol = trimmedSymbol,
                                   !.amount = IF raw # <<>> THEN ParseEther(raw)
                                              ELSE BigZero],
                       "Nad.fun: uploading image..."),
                   "uploadImage", inv.mime, "image")

\* tokenForm.useCustomLogo ? tokenForm.customLogoData : logos[selectedLogo] || ''
ImageData(cl) ==
  IF cl.form.useCustomLogo THEN cl.form.customLogoData
  ELSE IF cl.selectedLogo + 1 \in DOMAIN cl.logos THEN cl.logos[cl.selectedLogo + 1]
  ELSE NoDataUrl

\* the logo: dataUrlToBlob, and svgToPngBlob for a vector image
PackLogo(inv) ==
  LET rawBlob == dataUrlToBlob(ImageData(inv.cl))
  IN  IF rawBlob = Null THEN Ended(Say(inv, "Invalid logo data."), "invalid")
      ELSE IF rawBlob = "image/svg+xml" THEN [inv EXCEPT !.pc = "svg"]
      ELSE PackValidate([inv EXCEPT !.mime = rawBlob])

\* the preconditions and the wallet authorization
PackBegin_AnyChain(inv, ref) ==
  LET w == inv.cl.wallet
  IN  IF ~w.isConnected \/ w.address = NoAddress
      THEN Ended(Say(inv, "Wallet not connected. Please connect to launch."),
                 "shortcircuit")
      ELSE IF ~w.publicClient
      THEN Ended(Say(inv, "Public client unavailable."), "shortcircuit")
      ELSE LET a == Say(inv, "Authorizing wallet...")
           IN  CASE ref = "unresolvable" -> PackFailed(a, "walletClient is not defined")
                 [] ref = "client" -> Calling(a, "ensureWalletAuthorized", "", "auth")
                 [] OTHER -> PackLogo(a)

PackBegin(inv, ref) ==
  LET w == inv.cl.wallet
  IN  IF ~w.isConnected \/ w.address = NoAddress
      THEN Ended(Say(inv, "Wallet not connected. Please connect to launch."),
                 "shortcircuit")
      ELSE IF ~w.publicClient
      THEN Ended(Say(inv, "Public client unavailable."), "shortcircuit")
      ELSE IF w.chainId # MonadTestnet
      THEN Ended(Say(inv, "Wrong network. Please switch to Monad Testnet."),
                 "shortcircuit")
      ELSE LET a == Say(inv, "Authorizing wallet...")
           IN  CASE ref = "unresolvable" -> PackFailed(a, "walletClient is not defined")
                 [] ref = "client" -> Calling(a, "ensureWalletAuthorized", "", "auth")
                 [] OTHER -> PackLogo(a)

NewPack(r) ==
  [alive |-> TRUE, pc |-> "start", outcome |-> "running",
   cl |-> [form |-> r.bs.tokenForm, logos |-> r.bs.logos,
           selectedLogo |-> r.bs.selectedLogo, wallet |-> r.wallet],
   mime |-> "", name |-> <<>>, symbol |-> <<>>, amount |-> BigZero,
   imageUri |-> None, metadataUri |-> None, salt |-> None, predicted |-> None,
   fee |-> BigZero, minTokens |-> BigZero, packed |-> None,
   calls |-> <<>>, lines |-> <<>>, threw |-> FALSE]

\* what is left of an invocation once it has ended
Retired == [alive |-> FALSE, pc |-> "done"]
Retire(inv) == IF inv.pc = "done" THEN Retired ELSE inv

\* the ghost record of an invocation that ends in this step
EndedBy(kind, i, inv) ==
  IF inv.pc = "done" THEN Some([kind |-> kind, id |-> i, inv |-> inv]) ELSE None

\* the lines an invocation added in one step
NewLines(old, new) == SubSeq(new.lines, Len(old.lines) + 1, Len(new.lines))

\* addToLog, n times: setBuildLogs(prev => [...prev, line])
Logged(logs, n) == logs \/ n > 0

\* the state updates of one step of invocation i: addToLog, setPackedLaunch and,
\* at the end, the finally block; all no-ops once the component is unmounted
PackEffects_ClearsOnFailure(old, new, invoked) ==
  IF old.alive
  THEN /\ buildLogs' = Logged(buildLogs, Len(NewLines(old, new)))
       /\ bs' = IF new.outcome = "packed" THEN [bs EXCEPT !.packedLaunch = new.packed]
                ELSE IF new.outcome = "failed" THEN [bs EXCEPT !.packedLaunch = None]
                ELSE bs
       /\ isPacking' = IF new.pc = "done" THEN FALSE
                      ELSE IF invoked THEN TRUE ELSE isPacking
  ELSE UNCHANGED <<buildLogs, bs, isPacking>>

PackEffects(old, new, invoked) ==
  IF old.alive
  THEN /\ buildLogs' = Logged(buildLogs, Len(NewLines(old, new)))
       /\ bs' = IF new.outcome = "packed" THEN [bs EXCEPT !.packedLaunch = new.packed]
                ELSE bs
       /\ isPacking' = IF new.pc = "done" THEN FALSE
                      ELSE IF invoked THEN TRUE ELSE isPacking
  ELSE UNCHANGED <<buildLogs, bs, isPacking>>

PackFrame == UNCHANGED <<isMinting, txHash, store, wallet, walletClientRef,
                         signs, gens, sent, quota, receipts, server>>

\* onClick={packLaunchTx}: the guard, setIsPacking(true), and the code up to the
\* first await
PackInvoke ==
  /\ rendered.bs.buildStep = 3
  /\ IF rendered.isPacking THEN UNCHANGED vars
     ELSE /\ Len(packs) < quota.packs
          /\ LET old == NewPack(rendered)
                 new == PackBegin(old, walletClientRef)
             IN  /\ packs' = Append(packs, Retire(new))
                 /\ ended' = EndedBy("pack", Len(packs) + 1, new)
                 /\ PackEffects(old, new, TRUE)
          /\ rendered' = Due
          /\ PackFrame

PackStep(i, new) ==
  /\ Idle
  /\ UNCHANGED rendered
  /\ packs' = [packs EXCEPT ![i] = Retire(new)]
  /\ ended' = EndedBy("pack", i, new)
  /\ PackEffects(packs[i], new, FALSE)
  /\ PackFrame

\* ensureWalletAuthorized returns or throws
PackAuthReturn(i, ok) ==
  /\ packs[i].pc = "auth"
  /\ PackStep(i, IF ok THEN PackLogo(packs[i])
                 ELSE CallThrew(packs[i], "User rejected the request."))

\* svgToPngBlob resolves or rejects
PackSvgReturn(i, ok) ==
  /\ packs[i].pc = "svg"
  /\ PackStep(i, IF ok THEN PackValidate([packs[i] EXCEPT !.mime = "image/png"])
                 ELSE CallThrew(packs[i], "Failed to load logo image."))

PackImageReturn_GoesOn(i, ok) ==
  /\ packs[i].pc = "image"
  /\ PackStep(i,
       LET a == [packs[i] EXCEPT !.imageUri = IF ok THEN <<"image", i>> ELSE @,
                                 !.threw = ~ok]
       IN  Calling(Say(a, "Nad.fun: uploading metadata..."), "uploadMetadata",
                   [imageUri |-> a.imageUri, name |-> a.name, symbol |-> a.symbol],
                   "metadata"))

\* uploadImage returns {imageUri, isNsfw} or throws
PackImageReturn(i, ok) ==
  /\ packs[i].pc = "image"
  /\ PackStep(i,
       IF ok
       THEN LET a == [packs[i] EXCEPT !.imageUri = <<"image", i>>]
            IN  Calling(Say(a, "Nad.fun: uploading metadata..."), "uploadMetadata",
                        [imageUri |-> a.imageUri, name |-> a.name, symbol |-> a.symbol],
                        "metadata")
       ELSE CallThrew(packs[i], "Nad.fun image upload failed"))

\* uploadMetadata returns {metadataUri, metadata} or throws
PackMetadataReturn(i, ok) ==
  /\ packs[i].pc = "metadata"
  /\ PackStep(i,
       IF ok
       THEN LET a == [packs[i] EXCEPT !.metadataUri = <<"metadata", i>>]
            IN  Calling(Say(a, "Nad.fun: mining salt..."), "mineSalt",
                        [creator |-> a.cl.wallet.address, name |-> a.name,
                         symbol |-> a.symbol, metadataUri |-> a.metadataUri],
                        "salt")
       ELSE CallThrew(packs[i], "Nad.fun metadata upload failed"))

\* mineSalt returns {salt, address} or throws; the salt is the one the service
\* mined in this call for the creator the call named
PackSaltReturn(i, ok) ==
  /\ packs[i].pc = "salt"
  /\ PackStep(i,
       IF ok
       THEN LET asked == packs[i].calls[Len(packs[i].calls)].arg
                a == [packs[i] EXCEPT !.salt = <<"salt", i, asked.creator>>,
                                      !.predicted = <<"token", i>>]
            IN  Calling(Say(a, "Reading deploy fee..."), "getFeeConfig", "", "fee")
       ELSE CallThrew(packs[i], "Nad.fun salt mining failed"))

\* getFeeConfig returns the fee now on chain, or throws
PackFeeReturn(i, ok, fee) ==
  /\ packs[i].pc = "fee"
  /\ PackStep(i, IF ok THEN PackAfterFee([packs[i] EXCEPT !.fee = fee])
                 ELSE CallThrew(packs[i], "readContract failed"))

\* getInitialBuyAmountOut returns the quote, or throws
PackQuoteReturn(i, ok) ==
  /\ packs[i].pc = "quote"
  /\ PackStep(i, IF ok THEN PackAssemble([packs[i] EXCEPT !.minTokens = QuoteOut])
                 ELSE CallThrew(packs[i], "readContract failed"))


(***************************************************************************)
(* Transaction receipts and parseCurveCreateFromReceipt                    *)
(*                                                                         *)
(* A log is what decodeEventLog looks at: whether its first topic is the   *)
(* signature of CurveCreate, the only event of curveAbi, whether its       *)
(* topics and data decode against that event, and the token and pool they  *)
(* hold.                                                                   *)
(***************************************************************************)
Log(sig, wellFormed, token, pool) ==
  [sig |-> sig, wellFormed |-> wellFormed, token |-> token, pool |-> pool]

LogCreateA == Log("CurveCreate", TRUE, "0xT1", "0xP1")
LogCreateB == Log("CurveCreate", TRUE, "0xT2", "0xP2")
LogTransfer == Log("Transfer", TRUE, "", "")          \* an event of another ABI
LogTruncated == Log("CurveCreate", FALSE, "", "")     \* topics or data do not fit
Logs == {LogCreateA, LogCreateB, LogTransfer, LogTruncated}

\* decodeEventLog({ abi: curveAbi, data, topics }): the event, or None when it throws
decodeEventLog(log) ==
  IF log.sig = "CurveCreate" /\ log.wellFormed
  THEN Some([eventName |-> "CurveCreate",
             args |-> [token |-> log.token, pool |-> log.pool]])
  ELSE None

parseCurveCreateFromReceipt_FirstLogOnly(logs) ==
  IF logs = <<>> \/ decodeEventLog(Head(logs)) = None THEN None
  ELSE Some([token |-> Head(logs).token, pool |-> Head(logs).pool])

\* for (const log of receipt.logs) { try { ... return {token, pool} } catch {} } return null
RECURSIVE parseCurveCreateFromReceipt(_)
parseCurveCreateFromReceipt(logs) ==
  IF logs = <<>> THEN None
  ELSE LET event == decodeEventLog(Head(logs))
       IN  IF event # None /\ event[1].eventName = "CurveCreate"
           THEN Some([token |-> event[1].args.token, pool |-> event[1].args.pool])
           ELSE parseCurveCreateFromReceipt(Tail(logs))

\* the sequences of at most n logs
RECURSIVE LogSeqs(_)
LogSeqs(n) ==
  IF n = 0 THEN {<<>>}
  ELSE LET shorter == LogSeqs(n - 1)
       IN  shorter \cup {Append(r, l) : r \in {q \in shorter : Len(q) = n - 1}, l \in Logs}

Receipts == LogSeqs(MaxLogs)

\* the receipts of a launch: without logs, with the creation event behind another log
LaunchReceipts == {<<>>, <<LogTransfer, LogCreateA>>}

(***************************************************************************)
(* signAndLaunch                                                           *)
(***************************************************************************)
\* catch (error) { addToLog(`Launch failed: ...`) } finally
LaunchFailed(inv, message) == Ended(Say(inv, "Launch failed: " \o message), "failed")

\* the request signAndLaunch passes to writeContractAsync
CreateRequest_NoMinOut(pl, w) ==
  [address |-> NADFUN_CONTRACTS[NADFUN_NETWORK].BONDING_CURVE_ROUTER,
   functionName |-> "create",
   args |-> [name |-> pl.tx.args.name, symbol |-> pl.tx.args.symbol,
             tokenURI |-> pl.tx.args.tokenURI,
             amountOut |-> BigZero,
             salt |-> pl.tx.args.salt, actionId |-> 1],
   value |-> BigIntOfString(OrElse(pl.tx.value, Str0)),
   chainId |-> MonadTestnet,
   account |-> w.address]

CreateRequest(pl, w) ==
  [address |-> NADFUN_CONTRACTS[NADFUN_NETWORK].BONDING_CURVE_ROUTER,
   functionName |-> "create",
   args |-> [name |-> pl.tx.args.name, symbol |-> pl.tx.args.symbol,
             tokenURI |-> pl.tx.args.tokenURI,
             amountOut |-> BigIntOfString(OrElse(pl.tx.args.amountOut, Str0)),
             salt |-> pl.tx.args.salt, actionId |-> 1],
   value |-> BigIntOfString(OrElse(pl.tx.value, Str0)),
   chainId |-> MonadTestnet,
   account |-> w.address]

\* the guards, and the code up to the await of writeContractAsync
SignBegin_IgnoresDryRun(inv) ==
  LET w == inv.cl.wallet
      p == inv.cl.packedLaunch
  IN  IF p = None
      THEN Ended(Say(inv, "No packed tx found. Pack the tx first."), "shortcircuit")
      ELSE IF ~w.publicClient
      THEN Ended(Say(inv, "Public client unavailable."), "shortcircuit")
      ELSE IF ~w.isConnected \/ w.address = NoAddress
      THEN Ended(Say(inv, "Wallet not connected. Please connect to launch."),
                 "shortcircuit")
      ELSE IF w.chainId # MonadTestnet
      THEN Ended(Say(inv, "Wrong network. Please switch to Monad Testnet."),
                 "shortcircuit")
      ELSE Calling(Say(inv, "Requesting wallet signature..."),
                   "writeContractAsync", CreateRequest(p[1], w), "write")

SignBegin(inv) ==
  LET w == inv.cl.wallet
      p == inv.cl.packedLaunch
  IN  IF p = None
      THEN Ended(Say(inv, "No packed tx found. Pack the tx first."), "shortcircuit")
      ELSE IF ~w.publicClient
      THEN Ended(Say(inv, "Public client unavailable."), "shortcircuit")
      ELSE IF ~w.isConnected \/ w.address = NoAddress
      THEN Ended(Say(inv, "Wallet not connected. Please connect to launch."),
                 "shortcircuit")
      ELSE IF w.chainId # MonadTestnet
      THEN Ended(Say(inv, "Wrong network. Please switch to Monad Testnet."),
                 "shortcircuit")
      ELSE IF inv.cl.dryRun
      THEN Ended(Say(inv, "DRY RUN enabled. Skipping signature + send."),
                 "shortcircuit")
      ELSE IF ~BigIntOfStringOk(OrElse(p[1].tx.value, Str0))
      THEN LaunchFailed(inv, "Cannot convert to a BigInt")
      ELSE IF p[1].tx.args.tokenURI = None \/ p[1].tx.args.salt = None
      THEN Ended(Say(inv, "Packed tx missing fields. Re-pack and try again."),
                 "shortcircuit")
      ELSE IF ~BigIntOfStringOk(OrElse(p[1].tx.args.amountOut, Str0))
      THEN LaunchFailed(Say(inv, "Requesting wallet signature..."),
                        "Cannot convert to a BigInt")
      ELSE Calling(Say(inv, "Requesting wallet signature..."),
                   "writeContractAsync", CreateRequest(p[1], w), "write")

\* the wallet's side of signAndLaunch: a create request for the PackedLaunch pl
\* reached it, or it returned a hash for one
Asked(pl) == [ev |-> "request", salt |-> pl.salt.salt]
Hashed(pl) == [ev |-> "hash", salt |-> pl.salt.salt]

\* disabled={isMinting || !packedLaunch || Boolean(tokenForm.dryRun)}
SignButtonDisabled(r) ==
  r.isMinting \/ r.bs.packedLaunch = None \/ r.bs.tokenForm.dryRun

NewSign(r) ==
  [alive |-> TRUE, pc |-> "start", outcome |-> "running",
   clickable |-> ~SignButtonDisabled(r),
   cl |-> [packedLaunch |-> r.bs.packedLaunch, wallet |-> r.wallet,
           dryRun |-> r.bs.tokenForm.dryRun],
   hash |-> None, receipt |-> None, created |-> None, calls |-> <<>>, lines |-> <<>>]

SignEffects_KeepsMintingOnFailure(old, new, invoked) ==
  IF old.alive
  THEN /\ buildLogs' = Logged(buildLogs, Len(NewLines(old, new)))
       /\ txHash' = IF new.hash # old.hash THEN new.hash ELSE txHash
       /\ bs' = IF new.outcome = "sent" THEN [bs EXCEPT !.packedLaunch = None] ELSE bs
       /\ isMinting' = IF new.pc = "done" /\ new.outcome # "failed" THEN FALSE
                       ELSE IF invoked THEN TRUE ELSE isMinting
  ELSE UNCHANGED <<buildLogs, txHash, bs, isMinting>>

SignEffects_ClearsOnlyWhenFound(old, new, invoked) ==
  IF old.alive
  THEN /\ buildLogs' = Logged(buildLogs, Len(NewLines(old, new)))
       /\ txHash' = IF new.hash # old.hash THEN new.hash ELSE txHash
       /\ bs' = IF new.outcome = "sent" /\ new.created # None
              THEN [bs EXCEPT !.packedLaunch = None] ELSE bs
       /\ isMinting' = IF new.pc = "done" THEN FALSE
                       ELSE IF invoked THEN TRUE ELSE isMinting
  ELSE UNCHANGED <<buildLogs, txHash, bs, isMinting>>

\* the state updates of one step of a signAndLaunch invocation
SignEffects(old, new, invoked) ==
  IF old.alive
  THEN /\ buildLogs' = Logged(buildLogs, Len(NewLines(old, new)))
       /\ txHash' = IF new.hash # old.hash THEN new.hash ELSE txHash
       /\ bs' = IF new.outcome = "sent" THEN [bs EXCEPT !.packedLaunch = None] ELSE bs
       /\ isMinting' = IF new.pc = "done" THEN FALSE
                       ELSE IF invoked THEN TRUE ELSE isMinting
  ELSE UNCHANGED <<buildLogs, txHash, bs, isMinting>>

SignFrame == UNCHANGED <<isPacking, store, wallet, walletClientRef, packs, gens, quota, receipts, server>>

\* onClick={signAndLaunch}
SignInvoke ==
  /\ rendered.bs.buildStep = 3
  /\ IF rendered.isMinting THEN UNCHANGED vars
     ELSE /\ Len(signs) < quota.signs
          /\ LET old == NewSign(rendered)
                 new == SignBegin(old)
             IN  /\ signs' = Append(signs, Retire(new))
                 /\ ended' = EndedBy("sign", Len(signs) + 1, new)
                 /\ SignEffects(old, new, TRUE)
                 /\ sent' = IF new.pc = "write"
                            THEN Append(sent, Asked(old.cl.packedLaunch[1]))
                            ELSE sent
          /\ rendered' = Due
          /\ SignFrame

\* writeContractAsync returns the hash, or throws (rejected, RPC error)
SignWriteReturn(i, ok) ==
  /\ Idle
  /\ UNCHANGED rendered
  /\ signs[i].pc = "write"
  /\ LET new == IF ok
                THEN Calling(Say([signs[i] EXCEPT !.hash = Some(<<"hash", i>>)],
                                 "Tx sent"),
                             "waitForTransactionReceipt", <<"hash", i>>, "receipt")
                ELSE LaunchFailed(signs[i], "User rejected the request.")
     IN  /\ signs' = [signs EXCEPT ![i] = Retire(new)]
         /\ ended' = EndedBy("sign", i, new)
         /\ SignEffects(signs[i], new, FALSE)
         /\ sent' = IF ok THEN Append(sent, Hashed(signs[i].cl.packedLaunch[1]))
                    ELSE sent
  /\ SignFrame

\* waitForTransactionReceipt returns a receipt or throws; the receipt goes
\* through parseCurveCreateFromReceipt
SignReceiptReturn(i, ok, receipt) ==
  /\ Idle
  /\ UNCHANGED rendered
  /\ signs[i].pc = "receipt"
  /\ LET created == parseCurveCreateFromReceipt(receipt)
         got == [signs[i] EXCEPT !.receipt = Some(receipt), !.created = created]
         new ==
           IF ~ok THEN LaunchFailed(signs[i], "waitForTransactionReceipt failed")
           ELSE IF created # None
           THEN Ended(Say(Say(got, "Token deployed: " \o created[1].token),
                          "Pool: " \o created[1].pool), "sent")
           ELSE Ended(Say(got, "Tx confirmed. Token address not found in logs (CurveCreate)."),
                      "sent")
     IN  /\ signs' = [signs EXCEPT ![i] = Retire(new)]
         /\ ended' = EndedBy("sign", i, new)
         /\ SignEffects(signs[i], new, FALSE)
  /\ UNCHANGED sent
  /\ SignFrame


(***************************************************************************)
(* Rendering and effects                                                   *)
(*                                                                         *)
(* A handler reads the values of the render that created it.  After a user *)
(* event React renders before it handles the next event (rendered.pending: *)
(* that render is due; until then the same handlers can only be invoked    *)
(* again); after a state update made behind an await the render comes      *)
(* later, and a user event can come first.                                 *)
(***************************************************************************)
\* the stage 3 effect: setLogos / setSelectedLogo when there is no logo, and
\* setTokenForm(prev => ...) with the per-field defaults
SeedBuilder(b) ==
  [b EXCEPT !.logos = IF b.logos = <<>> THEN buildLogoSet ELSE @,
            !.selectedLogo = IF b.logos = <<>> THEN 0 ELSE @,
            !.tokenForm = SeedForm(@)]

\* deps of the stage 3 effect: [address, buildStep, idea, logos.length]
SeedDepsChanged(r, b, w) ==
  \/ r.wallet.address # w.address
  \/ r.bs.buildStep # b.buildStep
  \/ Len(r.bs.logos) # Len(b.logos)

\* deps of the prompt effect: [aiConfig, buildStep, contractCode, frontendPrompt, idea]
PromptDepsChanged(r, b) ==
  \/ r.bs.buildStep # b.buildStep
  \/ r.bs.contractCode # b.contractCode
  \/ r.bs.frontendPrompt # b.frontendPrompt

\* the two persistence effects: both keys hold the rendered values
Persisted(b, logs) == [state |-> Some(b), logs |-> Some(logs)]

\* the builder state after the effects of a render of b (the stage 3 effect)
AfterEffects(r, b, w) ==
  IF SeedDepsChanged(r, b, w) /\ b.buildStep = 3 THEN SeedBuilder(b) ELSE b

\* the prompt effect of a render of b: its cleanup, and a new call when the
\* builder is at stage 2 without a prompt
PromptEffect(r, b, g) ==
  IF PromptDepsChanged(r, b)
  THEN [g EXCEPT !.effect = (b.buildStep = 2 /\ b.frontendPrompt = "")]
  ELSE g

\* React renders the pending state and runs the effects whose deps changed; the
\* state the effects set is rendered in turn
Render ==
  /\ rendered # Snapshot(bs, isPacking, isMinting, buildLogs, wallet)
  /\ LET b1 == AfterEffects(rendered, bs, wallet)
     IN  /\ bs' = b1
         /\ rendered' = Snapshot(b1, isPacking, isMinting, buildLogs, wallet)
         /\ store' = Persisted(b1, buildLogs)
         /\ gens' = PromptEffect(rendered, bs, gens)
  /\ ended' = None
  /\ UNCHANGED <<isPacking, isMinting, txHash, buildLogs, wallet, walletClientRef,
                 packs, signs, sent, quota, receipts, server>>

Orphaned(invs) == [i \in DOMAIN invs |-> [invs[i] EXCEPT !.alive = FALSE]]

NoGens == [contract |-> 0, prompt |-> 0, effect |-> FALSE]

\* the modal is closed and opened again on the same concept: a new component
\* takes its state from storage and runs its effects; what the old one started
\* goes on, but its state updates go nowhere
Reload ==
  LET b == LoadBuilder(store.state)
      logs == IF store.logs = None THEN FALSE ELSE store.logs[1]
      b1 == IF b.buildStep = 3 THEN SeedBuilder(b) ELSE b
  IN  /\ Idle
      /\ rendered' = Snapshot(b1, FALSE, FALSE, logs, wallet)
      /\ bs' = b1
      /\ buildLogs' = logs
      /\ isPacking' = FALSE
      /\ isMinting' = FALSE
      /\ txHash' = None
      /\ store' = Persisted(b1, logs)
      /\ gens' = [NoGens EXCEPT !.effect = (b.buildStep = 2 /\ b.frontendPrompt = "")]
      /\ packs' = Orphaned(packs)
      /\ signs' = Orphaned(signs)
      /\ ended' = None
      /\ UNCHANGED <<wallet, walletClientRef, sent, quota, receipts, server>>

\* the wallet hooks report another account, chain or connection state
WalletChange(w) ==
  /\ Idle
  /\ w # wallet
  /\ wallet' = w
  /\ ended' = None
  /\ UNCHANGED <<bs, isPacking, isMinting, txHash, buildLogs, rendered, store,
                 walletClientRef, packs, signs, gens, sent, quota, receipts, server>>

(***************************************************************************)
(* The builder's stages                                                    *)
(***************************************************************************)
BuilderFrame ==
  /\ ended' = None
  /\ UNCHANGED <<isPacking, txHash, store, wallet, walletClientRef, packs, signs,
                 sent, quota, receipts, server>>

\* handleStartBuild up to the await of generateContractCode
handleStartBuild ==
  /\ Idle
  /\ rendered' = Due
  /\ rendered.bs.buildStep = 0
  /\ LET r == rendered.bs
         hasCache == \/ r.contractCode # "" \/ r.frontendPrompt # ""
                     \/ r.contractAddress # Null \/ r.logos # <<>> \/ rendered.hasLogs
     IN  IF hasCache
         THEN /\ bs' = [bs EXCEPT !.buildStep = IF @ > 0 THEN @ ELSE 1]
              /\ buildLogs' = Logged(buildLogs, 1)   \* "Loaded cached builder state."
              /\ UNCHANGED <<isMinting, gens>>
         ELSE /\ gens.contract < MaxGens
              /\ bs' = [bs EXCEPT !.buildStep = 1, !.contractCode = "",
                                  !.frontendPrompt = "", !.contractAddress = Null,
                                  !.logos = <<>>, !.selectedLogo = 0]
              /\ isMinting' = FALSE
              /\ buildLogs' = Logged(FALSE, 3)   \* setBuildLogs([]), then three lines
              /\ gens' = [gens EXCEPT !.contract = @ + 1]
  /\ BuilderFrame

\* generateContractCode returns the code, or throws
ContractReturn(ok) ==
  /\ Idle
  /\ UNCHANGED rendered
  /\ gens.contract > 0
  /\ gens' = [gens EXCEPT !.contract = @ - 1]
  /\ IF ok
     THEN /\ bs' = [bs EXCEPT !.contractCode = "code"]
          /\ buildLogs' = Logged(buildLogs, 2)   \* "Contract compiled ...", "Contract stage ready ..."
     ELSE /\ bs' = [bs EXCEPT !.buildStep = 0]
          /\ buildLogs' = Logged(buildLogs, 1)   \* "Error in contract pipeline."
  /\ UNCHANGED isMinting
  /\ BuilderFrame

\* the stage buttons: onClick={() => setBuildStep(n)}
SetBuildStep(n) ==
  /\ Idle
  /\ rendered' = Due
  /\ \/ n = 2 /\ rendered.bs.buildStep = 1 /\ rendered.bs.contractCode # ""
     \/ n = 1 /\ rendered.bs.buildStep = 2
     \/ n = 3 /\ rendered.bs.buildStep = 2 /\ rendered.bs.frontendPrompt # ""
     \/ n = 2 /\ rendered.bs.buildStep = 3
  /\ bs' = [bs EXCEPT !.buildStep = n]
  /\ UNCHANGED <<isMinting, buildLogs, gens>>
  /\ BuilderFrame

\* handleGenerateFrontendPrompt up to its await
handleGenerateFrontendPrompt ==
  /\ Idle
  /\ rendered' = Due
  /\ rendered.bs.buildStep = 2
  /\ rendered.bs.contractCode # ""
  /\ gens.prompt < MaxGens
  /\ buildLogs' = Logged(buildLogs, 1)   \* "Agent: Writing Dapp build prompt..."
  /\ gens' = [gens EXCEPT !.prompt = @ + 1]
  /\ UNCHANGED <<bs, isMinting>>
  /\ BuilderFrame

\* generateFrontendPrompt returns to the button's handler or to the effect
PromptReturn(viaEffect, ok) ==
  /\ Idle
  /\ UNCHANGED rendered
  /\ IF viaEffect THEN gens.effect ELSE gens.prompt > 0
  /\ gens' = IF viaEffect THEN [gens EXCEPT !.effect = FALSE]
             ELSE [gens EXCEPT !.prompt = @ - 1]
  /\ bs' = IF ok THEN [bs EXCEPT !.frontendPrompt = "prompt"] ELSE bs
  /\ buildLogs' = Logged(buildLogs, 1)   \* "Frontend prompt ready." or "Failed to generate ..."
  /\ UNCHANGED isMinting
  /\ BuilderFrame

\* the form inputs of stage 3: setTokenForm(prev => ({ ...prev, field: value }))
EditForm(field, value) ==
  /\ Idle
  /\ rendered' = Due
  /\ rendered.bs.buildStep = 3
  /\ bs.tokenForm[field] # value
  /\ bs' = [bs EXCEPT !.tokenForm[field] = value]
  /\ UNCHANGED <<isMinting, buildLogs, gens>>
  /\ BuilderFrame

\* handleCustomLogoUpload: the FileReader's onload
handleCustomLogoUpload(url) ==
  /\ Idle
  /\ UNCHANGED rendered
  /\ rendered.bs.buildStep = 3
  /\ url # NoDataUrl
  /\ bs' = [bs EXCEPT !.tokenForm.customLogoData = url]
  /\ buildLogs' = Logged(buildLogs, 1)   \* "Custom logo loaded."
  /\ UNCHANGED <<isMinting, gens>>
  /\ BuilderFrame

\* the reset button
handleResetCache ==
  /\ Idle
  /\ store' = [state |-> None, logs |-> None]
  /\ bs' = [bs EXCEPT !.buildStep = 0, !.contractCode = "", !.frontendPrompt = "",
                      !.contractAddress = Null, !.logos = <<>>, !.selectedLogo = 0,
                      !.tokenForm = ResetForm]
  /\ buildLogs' = FALSE
  /\ isMinting' = FALSE
  /\ txHash' = None
  /\ rendered' = Due
  /\ ended' = None
  /\ UNCHANGED <<isPacking, wallet, walletClientRef, packs, signs, gens, sent, quota, receipts, server>>


(***************************************************************************)
(* The relay server                                                        *)
(*                                                                         *)
(* URLs, methods, header values and bodies are strings as they are.  A     *)
(* header set is a set of <<name, value>> pairs.  server.fetched lists the *)
(* calls of fetch in the order they were made: what went to an upstream.   *)
(***************************************************************************)
\* process.env.RELAY_TARGET || 'https://nad.fun'
TARGET == "https://nad.fun"

At(s, i) == SubSeq(s, i, i)
StartsWith(s, p) == Len(s) >= Len(p) /\ SubSeq(s, 1, Len(p)) = p
EndsWith(s, p) == Len(s) >= Len(p) /\ SubSeq(s, Len(s) - Len(p) + 1, Len(s)) = p

\* req.url.replace(/^\/relay/, '')
StripRelay(url) ==
  IF StartsWith(url, "/relay") THEN SubSeq(url, Len("/relay") + 1, Len(url)) ELSE url

\* the host fetch connects to for an https URL: the authority ends before the
\* first '/', '?' or '#', and the host is what follows its last '@'
UrlHost(url) ==
  LET rest == SubSeq(url, Len("https://") + 1, Len(url))
      stops == {i \in 1..Len(rest) : At(rest, i) \in {"/", "?", "#"}}
      n == IF stops = {} THEN Len(rest)
           ELSE (CHOOSE i \in stops : \A j \in stops : i <= j) - 1
      authority == SubSeq(rest, 1, n)
      ats == {i \in 1..n : At(authority, i) = "@"}
  IN  IF ats = {} THEN authority
      ELSE SubSeq(authority, (CHOOSE i \in ats : \A j \in ats : i >= j) + 1, n)

\* origin.replace(/^https?:\/\//, '').replace(/\/$/, '')
OriginHost(origin) ==
  LET a == IF StartsWith(origin, "https://")
           THEN SubSeq(origin, Len("https://") + 1, Len(origin))
           ELSE IF StartsWith(origin, "http://")
           THEN SubSeq(origin, Len("http://") + 1, Len(origin))
           ELSE origin
  IN  IF EndsWith(a, "/") THEN SubSeq(a, 1, Len(a) - 1) ELSE a

getCorsOrigin(allowedOrigins, origin) ==
  IF origin = "" THEN "*"
  ELSE IF allowedOrigins = {} THEN "*"
  ELSE IF origin \in allowedOrigins \/ OriginHost(origin) \in allowedOrigins THEN origin
  ELSE ""

\* the headers of a request: req.headers.origin is undefined without an Origin
RequestHeaders(origin) ==
  {<<"host", "relay.example:8788">>, <<"content-type", "application/json">>}
    \cup (IF origin = "" THEN {} ELSE {<<"origin", origin>>})

\* send(req, res, status, body, headers): the response written to res
send(allowedOrigins, req, status, body, headers) ==
  LET corsOrigin == getCorsOrigin(allowedOrigins, req.origin)
      baseHeaders ==
        {<<"Access-Control-Allow-Headers", "Content-Type, Nad-Web-Access">>,
         <<"Access-Control-Allow-Methods", "GET,POST,PUT,DELETE,OPTIONS">>}
          \cup (IF corsOrigin = "" THEN {}
                ELSE {<<"Access-Control-Allow-Origin", corsOrigin>>, <<"Vary", "Origin">>})
      given == {h[1] : h \in headers}
  IN  [status |-> status, body |-> body,
       headers |-> {h \in baseHeaders : h[1] \notin given} \cup headers]

\* the call of fetch for a request: url, method, the headers left, the body
FetchCall(req, body) ==
  [url |-> TARGET \o StripRelay(req.url),
   method |-> req.method,
   headers |-> {h \in RequestHeaders(req.origin) :
                  h[1] \notin {"host", "origin", "referer"}},
   body |-> body]

\* the headers of the upstream response that the relay passes on
PassedHeaders(upstream) ==
  {h \in upstream.headers :
     h[1] \notin {"content-encoding", "content-length", "transfer-encoding",
                  "access-control-allow-origin", "access-control-allow-headers",
                  "access-control-allow-methods"}}

\* a connection: the request, where its handler stands, the response it wrote, its
\* fetch call, and the upstream response that call resolved with
Answered(req, res) ==
  [req |-> req, pc |-> "done", res |-> Some(res), fetch |-> None, upstream |-> None]
Fetching(req, body) ==
  [req |-> req, pc |-> "fetch", res |-> None, fetch |-> Some(FetchCall(req, body)),
   upstream |-> None]

\* the request handler up to its first await
RelayBegin_NoPrefixCheck(allowedOrigins, req) ==
  IF req.url = "" THEN Answered(req, send(allowedOrigins, req, 404, "Not found", {}))
  ELSE IF req.method = "OPTIONS"
  THEN Answered(req, send(allowedOrigins, req, 200, "", {}))
  ELSE IF req.method \in {"GET", "HEAD"} THEN Fetching(req, None)
  ELSE [req |-> req, pc |-> "body", res |-> None, fetch |-> None, upstream |-> None]

RelayBegin(allowedOrigins, req) ==
  IF req.url = "" THEN Answered(req, send(allowedOrigins, req, 404, "Not found", {}))
  ELSE IF req.method = "OPTIONS"
  THEN Answered(req, send(allowedOrigins, req, 200, "", {}))
  ELSE IF ~StartsWith(req.url, "/relay")
  THEN Answered(req, send(allowedOrigins, req, 404, "Not found", {}))
  ELSE IF req.method \in {"GET", "HEAD"} THEN Fetching(req, None)
  ELSE [req |-> req, pc |-> "body", res |-> None, fetch |-> None, upstream |-> None]

\* the catch: 500 with {error: message} as JSON
RelayFailed(allowedOrigins, conn, message) ==
  [conn EXCEPT !.pc = "done",
               !.res = Some(send(allowedOrigins, conn.req, 500, <<"error", message>>,
                                 {<<"Content-Type", "application/json">>}))]

\* the server after listen(): no connection yet
Listening(allowedOrigins, origin) ==
  [allowedOrigins |-> allowedOrigins, origin |-> origin, conns |-> <<>>,
   fetched |-> <<>>]

\* the fetch calls so far, with the one conn makes in this step
Fetched(i, conn) ==
  IF conn.pc = "fetch" THEN Append(server.fetched, [conn |-> i, call |-> conn.fetch[1]])
  ELSE server.fetched

RelayFrame ==
  UNCHANGED <<bs, isPacking, isMinting, txHash, buildLogs, rendered, store, wallet,
              walletClientRef, packs, signs, gens, sent, ended, quota, receipts>>

\* createServer's handler is called with a request
RelayRequest(method, url, body) ==
  /\ Len(server.conns) < MaxConns
  /\ LET req == [method |-> method, url |-> url, origin |-> server.origin, body |-> body]
         conn == RelayBegin(server.allowedOrigins, req)
     IN  server' = [server EXCEPT !.conns = Append(@, conn),
                                  !.fetched = Fetched(Len(server.conns) + 1, conn)]
  /\ RelayFrame

\* collectBody(req) resolves with the body, or rejects
RelayBodyReturn(i, ok) ==
  /\ server.conns[i].pc = "body"
  /\ LET old == server.conns[i]
         conn == IF ok THEN Fetching(old.req, Some(old.req.body))
                 ELSE RelayFailed(server.allowedOrigins, old, "aborted")
     IN  server' = [server EXCEPT !.conns[i] = conn, !.fetched = Fetched(i, conn)]
  /\ RelayFrame

\* fetch and upstream.arrayBuffer() resolve with the upstream's response, or reject
RelayFetchReturn(i, ok, upstream) ==
  /\ server.conns[i].pc = "fetch"
  /\ LET old == server.conns[i]
         conn == IF ok
                 THEN [old EXCEPT !.pc = "done", !.upstream = Some(upstream),
                                  !.res = Some(send(server.allowedOrigins, old.req,
                                                    upstream.status, upstream.body,
                                                    PassedHeaders(upstream)))]
                 ELSE RelayFailed(server.allowedOrigins, old, "fetch failed")
     IN  server' = [server EXCEPT !.conns[i] = conn]
  /\ RelayFrame

(***************************************************************************)
(* Specifications                                                          *)
(***************************************************************************)
\* the log a session leaves behind when it has gone through the stages
Stage3Logs == TRUE

\* a component mounted on the stored state st and the stored log lg (None: no item)
Mounted(st, lg, w, ref, q) ==
  LET b == LoadBuilder(st)
      logs == IF lg = None THEN FALSE ELSE lg[1]
  IN  /\ bs = (IF b.buildStep = 3 THEN SeedBuilder(b) ELSE b)
      /\ isPacking = FALSE
      /\ isMinting = FALSE
      /\ txHash = None
      /\ buildLogs = logs
      /\ rendered = Snapshot(bs, FALSE, FALSE, logs, w)
      /\ store = Persisted(bs, logs)
      /\ wallet = w
      /\ walletClientRef = ref
      /\ packs = <<>>
      /\ signs = <<>>
      /\ gens = [NoGens EXCEPT !.effect = (b.buildStep = 2 /\ b.frontendPrompt = "")]
      /\ sent = <<>>
      /\ ended = None
      /\ quota = q

\* the form a stage 3 session has when nothing was typed
SeededForm == SeedForm(DefaultForm)

\* a PackedLaunch an earlier session packed and left in storage
StoredPack ==
  [NewPack(Snapshot(Stage3Builder(SeededForm), FALSE, FALSE, TRUE, WalletOk(AddrA)))
     EXCEPT !.mime = "image/png", !.name = IdeaTitle, !.symbol = SymNad,
            !.amount = ParseEther(Str0p1), !.imageUri = <<"image", 0>>,
            !.metadataUri = <<"metadata", 0>>, !.salt = <<"salt", 0, AddrA>>,
            !.predicted = <<"token", 0>>, !.fee = Fee10, !.minTokens = QuoteOut]
StoredPacked == PackedRecord(StoredPack)

PackReturns ==
  \E i \in DOMAIN packs, ok \in BOOLEAN :
    \/ PackAuthReturn(i, ok)
    \/ PackSvgReturn(i, ok)
    \/ PackImageReturn(i, ok)
    \/ PackMetadataReturn(i, ok)
    \/ PackSaltReturn(i, ok)
    \/ \E fee \in Fees : PackFeeReturn(i, ok, fee)
    \/ PackQuoteReturn(i, ok)

SignReturns ==
  \E i \in DOMAIN signs :
    \/ \E ok \in BOOLEAN : SignWriteReturn(i, ok)
    \/ \E ok \in BOOLEAN, receipt \in receipts : SignReceiptReturn(i, ok, receipt)

(***************************************************************************)
(* Spec: a session of the builder.  A first visit of the concept, or a     *)
(* visit that finds an earlier session's stage 3 in storage; the user goes *)
(* through the stages, packs, submits, resets, closes and reopens.         *)
(***************************************************************************)
Init ==
  /\ receipts = LaunchReceipts
  /\ server = Listening({}, "")
  /\ \E ref \in WalletClientRefs :
       \/ Mounted(None, None, WalletOk(AddrA), ref,
                  [packs |-> SessionPacks, signs |-> MaxSigns])
       \/ Mounted(Some(Stage3Builder(SeededForm)), Some(Stage3Logs), WalletOk(AddrA), ref,
                  [packs |-> SessionPacks, signs |-> MaxSigns])

Next ==
  \/ PackInvoke
  \/ PackReturns
  \/ SignInvoke
  \/ SignReturns
  \/ Render
  \/ Reload
  \/ handleStartBuild
  \/ \E ok \in BOOLEAN : ContractReturn(ok)
  \/ \E n \in 1..3 : SetBuildStep(n)
  \/ handleGenerateFrontendPrompt
  \/ \E viaEffect \in BOOLEAN, ok \in BOOLEAN : PromptReturn(viaEffect, ok)
  \/ handleResetCache

Spec == Init /\ [][Next]_vars

(***************************************************************************)
(* SpecPack: packLaunchTx on the inputs it validates.  The component is at *)
(* stage 3 with a form, a logo and a wallet state drawn from the cases the *)
(* code tells apart.                                                       *)
(***************************************************************************)
PackNames == {IdeaTitle, Name21, NamePadded, StrBlank}
PackSymbols == {SymNad, Sym11, SymPadded}
PackAmounts == {<<>>, Str0, Str0p1, Str1p25, StrNeg1, StrBad, StrPad0p1, StrBlank}
PackLogos == {PngDataUrl, GifDataUrl, NoDataUrl}

\* forms that differ from the seeded form in one input
PackForms ==
  {[SeededForm EXCEPT !.name = n] : n \in PackNames}
    \cup {[SeededForm EXCEPT !.symbol = y] : y \in PackSymbols}
    \cup {[SeededForm EXCEPT !.initialBuyMon = a] : a \in PackAmounts}
    \cup {[SeededForm EXCEPT !.useCustomLogo = TRUE, !.customLogoData = u] :
            u \in PackLogos}

InitPack ==
  /\ receipts = LaunchReceipts
  /\ server = Listening({}, "")
  /\ \E ref \in WalletClientRefs :
       \/ \E form \in PackForms :
            Mounted(Some(Stage3Builder(form)), Some(Stage3Logs), WalletOk(AddrA), ref,
                    [packs |-> MaxPacks, signs |-> 0])
       \/ \E w \in WalletStates, stored \in {None, Some(StoredPacked)} :
            Mounted(Some([Stage3Builder(SeededForm) EXCEPT !.packedLaunch = stored]),
                    Some(Stage3Logs), w, ref, [packs |-> MaxPacks, signs |-> 0])

NextPack ==
  \/ PackInvoke
  \/ PackReturns
  \/ Render

SpecPack == InitPack /\ [][NextPack]_vars

(***************************************************************************)
(* SpecSubmit: one launch, from the pack to the receipt.  The form's       *)
(* amount, the wallet and the fee the chain returns vary.                  *)
(***************************************************************************)
SubmitEdits == {<<"dryRun", TRUE>>, <<"dryRun", FALSE>>}

SubmitAmounts == {<<>>, Str0p1}

InitSubmit ==
  /\ receipts = LaunchReceipts
  /\ server = Listening({}, "")
  /\ \E ref \in WalletClientRefs, a \in SubmitAmounts :
       Mounted(Some(Stage3Builder([SeededForm EXCEPT !.initialBuyMon = a])),
               Some(Stage3Logs), WalletOk(AddrA), ref,
               [packs |-> SubmitPacks, signs |-> SubmitSigns])

NextSubmit ==
  \/ PackInvoke
  \/ PackReturns
  \/ SignInvoke
  \/ SignReturns
  \/ Render
  \/ \E e \in SubmitEdits : EditForm(e[1], e[2])

SpecSubmit == InitSubmit /\ [][NextSubmit]_vars

(***************************************************************************)
(* SpecForm: stage 3 while the form and the wallet change: the user types, *)
(* loads a logo file, switches account or chain, packs and submits.        *)
(***************************************************************************)
FormEdits ==
  {<<"name", Name21>>, <<"name", IdeaTitle>>,
   <<"useCustomLogo", TRUE>>, <<"useCustomLogo", FALSE>>}

InitForm ==
  /\ receipts = LaunchReceipts
  /\ server = Listening({}, "")
  /\ Mounted(Some(Stage3Builder(SeededForm)), Some(Stage3Logs), WalletOk(AddrA), "client",
             [packs |-> SubmitPacks, signs |-> SubmitSigns])

NextForm ==
  \/ PackInvoke
  \/ PackReturns
  \/ SignInvoke
  \/ SignReturns
  \/ Render
  \/ \E e \in FormEdits : EditForm(e[1], e[2])
  \/ \E w \in {WalletOk(AddrA), WalletOk(AddrB), WalletWrongChain} : WalletChange(w)
  \/ \E u \in {PngDataUrl, GifDataUrl} : handleCustomLogoUpload(u)

SpecForm == InitForm /\ [][NextForm]_vars

(***************************************************************************)
(* SpecReceipt: the submit of a PackedLaunch found in storage, on every    *)
(* receipt of at most MaxLogs logs.                                        *)
(***************************************************************************)
InitReceipt ==
  /\ \E r \in Receipts : receipts = {r}
  /\ server = Listening({}, "")
  /\ Mounted(Some([Stage3Builder(SeededForm) EXCEPT !.packedLaunch = Some(StoredPacked)]),
             Some(Stage3Logs), WalletOk(AddrA), "unresolvable",
             [packs |-> 0, signs |-> SubmitSigns])

NextReceipt ==
  \/ SignInvoke
  \/ SignReturns
  \/ Render

SpecReceipt == InitReceipt /\ [][NextReceipt]_vars

(***************************************************************************)
(* SpecBuilder: the stages and the form across sessions.  The user goes    *)
(* through the stages and back, edits the form at stage 3, switches the    *)
(* account, and closes and reopens the modal; nothing is packed.           *)
(***************************************************************************)
BuilderEdits ==
  {<<"name", <<>>>>, <<"name", Name21>>,
   <<"initialBuyMon", <<>>>>, <<"initialBuyMon", Str1p25>>}

InitBuilder ==
  /\ receipts = LaunchReceipts
  /\ server = Listening({}, "")
  /\ \/ Mounted(None, None, WalletOk(AddrA), "client", [packs |-> 0, signs |-> 0])
     \/ Mounted(Some(Stage3Builder(SeededForm)), Some(Stage3Logs), WalletOk(AddrA),
                "client", [packs |-> 0, signs |-> 0])

NextBuilder ==
  \/ Render
  \/ Reload
  \/ handleStartBuild
  \/ \E ok \in BOOLEAN : ContractReturn(ok)
  \/ \E n \in 1..3 : SetBuildStep(n)
  \/ handleGenerateFrontendPrompt
  \/ \E viaEffect \in BOOLEAN, ok \in BOOLEAN : PromptReturn(viaEffect, ok)
  \/ \E e \in BuilderEdits : EditForm(e[1], e[2])
  \/ \E w \in {WalletOk(AddrA), WalletOk(AddrB)} : WalletChange(w)

SpecBuilder == InitBuilder /\ [][NextBuilder]_vars

(***************************************************************************)
(* SpecRelay: the relay takes requests.  The allow-list of the process and *)
(* the Origin its clients send are those of the run; method, URL and body  *)
(* vary with the request.                                                  *)
(***************************************************************************)
RelayMethods == {"GET", "HEAD", "POST", "OPTIONS"}
RelayUrls ==
  {"/relay/foo", "/relay", "/relay?x=1", "/relayx", "/relay@evil.example/x",
   "/unknown", "/", "/api/relay/foo"}
RelayBodies == {"", "payload"}
AllowLists == {{}, {"https://app.example", "other.example"}}
Origins == {"", "https://app.example", "https://other.example/", "https://evil.example"}
UpstreamResponses ==
  {[status |-> 200, body |-> "upstream body",
    headers |-> {<<"content-type", "application/json">>, <<"content-encoding", "gzip">>,
                 <<"access-control-allow-origin", "*">>,
                 <<"access-control-allow-credentials", "true">>}],
   [status |-> 404, body |-> "",
    headers |-> {<<"content-length", "0">>}]}

InitRelay ==
  /\ receipts = LaunchReceipts
  /\ \E allowedOrigins \in AllowLists, origin \in Origins :
       server = Listening(allowedOrigins, origin)
  /\ Mounted(None, None, WalletOk(AddrA), "client", [packs |-> 0, signs |-> 0])

NextRelay ==
  \/ \E method \in RelayMethods, url \in RelayUrls, body \in RelayBodies :
       RelayRequest(method, url, body)
  \/ \E i \in DOMAIN server.conns, ok \in BOOLEAN : RelayBodyReturn(i, ok)
  \/ \E i \in DOMAIN server.conns, ok \in BOOLEAN, upstream \in UpstreamResponses :
       RelayFetchReturn(i, ok, upstream)

SpecRelay == InitRelay /\ [][NextRelay]_vars

\* a pack and a submit side by side: the component holds a PackedLaunch from an
\* earlier pack, and both buttons are there to be clicked
InitOverlap ==
  /\ receipts = LaunchReceipts
  /\ server = Listening({}, "")
  /\ Mounted(Some([Stage3Builder(SeededForm) EXCEPT !.packedLaunch = Some(StoredPacked)]),
             Some(Stage3Logs), WalletOk(AddrA), "client",
             [packs |-> SubmitPacks, signs |-> SubmitSigns])

NextOverlap ==
  \/ PackInvoke
  \/ PackReturns
  \/ SignInvoke
  \/ SignReturns
  \/ Render
  \/ \E w \in {WalletOk(AddrA), WalletOk(AddrB)} : WalletChange(w)

SpecOverlap == InitOverlap /\ [][NextOverlap]_vars

(***************************************************************************)
(* Properties                                                              *)
(***************************************************************************)
\* the invocations that have started and not ended
InFlight(invs) == {i \in DOMAIN invs : invs[i].pc # "done"}

\* C1: once the wallet has returned a hash for a PackedLaunch, no create request
\* for that PackedLaunch reaches the wallet again.
C1_NotSubmittedAgain ==
  \A i, j \in DOMAIN sent :
    (i < j /\ sent[i].ev = "hash" /\ sent[j].ev = "request")
      => sent[i].salt # sent[j].salt

\* C2: while an invocation of packLaunchTx is in flight, no further invocation
\* gets past the guard (none writes a line, makes a call or sets state).
C2_NoSecondPack ==
  [][InFlight(packs) # {} => Len(packs') = Len(packs)]_vars

\* C3: at most one invocation of signAndLaunch is between its start and its end.
C3_OneSubmitInFlight == Cardinality(InFlight(signs)) <= 1


\* the invocation of packLaunchTx that ended in the last step, if one did
PackEnded == ended # None /\ ended[1].kind = "pack"

\* the invocations of packLaunchTx whose calls and lines the state holds: those
\* in flight and the one that has just ended
Observed ==
  {packs[i] : i \in InFlight(packs)} \cup (IF PackEnded THEN {ended[1].inv} ELSE {})

CallsOf(inv, kind) == {k \in DOMAIN inv.calls : inv.calls[k].kind = kind}

ServiceKinds ==
  {"uploadImage", "uploadMetadata", "mineSalt", "getFeeConfig", "getInitialBuyAmountOut"}
NoServiceCall(inv) == \A k \in ServiceKinds : CallsOf(inv, k) = {}

WalletReady(w) ==
  w.isConnected /\ w.address # NoAddress /\ w.publicClient /\ w.chainId = MonadTestnet

\* the inputs C4 lists: wallet, public client, network, logo, name, symbol, amount
ValidInputs(cl) ==
  /\ WalletReady(cl.wallet)
  /\ dataUrlToBlob(ImageData(cl)) # Null
  /\ Trim(cl.form.name) # <<>> /\ Len(Trim(cl.form.name)) <= NameMax
  /\ Trim(cl.form.symbol) # <<>> /\ Len(Trim(cl.form.symbol)) <= SymbolMax
  /\ (InitialBuyRaw(cl.form) = <<>> \/ ParseEtherOk(InitialBuyRaw(cl.form)))

\* C4: an invocation of packLaunchTx whose inputs are all valid and none of whose
\* calls threw ends with packedLaunch holding the record it assembled from its own
\* image URI, metadata URI, salt, predicted address and fee.
C4_ValidPackCompletes ==
  (PackEnded /\ ValidInputs(ended[1].inv.cl) /\ ~ended[1].inv.threw)
    => LET inv == ended[1].inv
       IN  /\ inv.outcome = "packed"
           /\ bs.packedLaunch = inv.packed
           /\ inv.packed[1].image.imageUri = inv.imageUri
           /\ inv.packed[1].metadata.metadataUri = inv.metadataUri
           /\ inv.packed[1].salt = [salt |-> inv.salt, predictedTokenAddress |-> inv.predicted]
           /\ inv.packed[1].fee.deployFeeAmount = BigToString(inv.fee)

\* C5: every step of an invocation of packLaunchTx, except the last step of one that
\* packs, leaves the builder state (packedLaunch and every other persisted field),
\* the tx hash and the minting flag as they were.
C5_AbortKeepsState ==
  [][(packs' # packs /\ ~(PackEnded' /\ ended'[1].inv.outcome = "packed"))
       => (bs' = bs /\ txHash' = txHash /\ isMinting' = isMinting /\ store' = store)]_vars

\* an invocation failed behind its calls while an earlier PackedLaunch is in state,
\* and that PackedLaunch is still there
C5_Witness ==
  /\ PackEnded
  /\ ended[1].inv.outcome = "failed"
  /\ CallsOf(ended[1].inv, "getFeeConfig") # {}
  /\ bs.packedLaunch # None
  /\ bs.packedLaunch[1].salt.salt # ended[1].inv.salt

\* C6 as the spec states it: an invocation whose name string is longer than NameMax
\* or whose symbol string is longer than SymbolMax makes no image, metadata, salt,
\* fee or quote call.
C6_LongStringStops ==
  \A inv \in Observed :
    (Len(inv.cl.form.name) > NameMax \/ Len(inv.cl.form.symbol) > SymbolMax)
      => NoServiceCall(inv)

\* C6, amended: an invocation whose name is longer than NameMax or whose symbol is
\* longer than SymbolMax after trim() makes no image, metadata, salt, fee or quote
\* call and does not pack.
C6_LongTrimmedStops ==
  \A inv \in Observed :
    (Len(Trim(inv.cl.form.name)) > NameMax \/ Len(Trim(inv.cl.form.symbol)) > SymbolMax)
      => (NoServiceCall(inv) /\ inv.outcome \in {"running", "shortcircuit", "failed", "invalid"}
          /\ inv.pc \in {"start", "auth", "svg", "done"})

\* a name of NameMax + 1 characters reached the validation and was refused
C6_Witness ==
  /\ PackEnded
  /\ ended[1].inv.cl.form.name = Name21
  /\ ended[1].inv.outcome = "invalid"
  /\ ended[1].inv.lines[Len(ended[1].inv.lines)]
       = "Token name is required and must be 1-20 characters."


\* the log line of the first precondition the wallet state w fails
PreconditionLine(w) ==
  IF ~w.isConnected \/ w.address = NoAddress
  THEN "Wallet not connected. Please connect to launch."
  ELSE IF ~w.publicClient THEN "Public client unavailable."
  ELSE "Wrong network. Please switch to Monad Testnet."

\* C7: an invocation of packLaunchTx made while the wallet is not connected, no
\* public client exists or the chain is not Monad Testnet ends having written
\* exactly the one line that names the precondition and made no call, and the
\* step leaves packedLaunch (and the rest of the builder state) as it was.
C7_PreconditionStops ==
  [][(PackEnded' /\ ~WalletReady(ended'[1].inv.cl.wallet))
       => /\ ended'[1].inv.lines = <<PreconditionLine(ended'[1].inv.cl.wallet)>>
          /\ ended'[1].inv.calls = <<>>
          /\ bs'.packedLaunch = bs.packedLaunch
          /\ bs' = bs]_vars

\* on the wrong chain, with a PackedLaunch of an earlier session in state
C7_Witness ==
  /\ PackEnded
  /\ ended[1].inv.cl.wallet = WalletWrongChain
  /\ ended[1].inv.lines = <<"Wrong network. Please switch to Monad Testnet.">>
  /\ bs.packedLaunch = Some(StoredPacked)

\* the initial-buy amount the form of an invocation parses to
ParsedBuy(inv) ==
  IF InitialBuyRaw(inv.cl.form) = <<>> THEN BigZero
  ELSE ParseEther(InitialBuyRaw(inv.cl.form))

QuoteCalls(inv) == CallsOf(inv, "getInitialBuyAmountOut")

C9_ValueIsFeePlusBuy ==
  \A inv \in Observed :
    /\ inv.pc \in {"start", "auth", "svg", "image", "metadata", "salt"}
         => (CallsOf(inv, "getFeeConfig") = {} /\ inv.fee = BigZero)
    /\ inv.outcome = "packed" =>
         /\ Cardinality(CallsOf(inv, "getFeeConfig")) = 1
         /\ inv.fee \in Fees
         /\ inv.packed[1].fee.deployFeeAmount = BigToString(inv.fee)
         /\ inv.packed[1].tx.value = BigToString(BigAdd(inv.fee, ParsedBuy(inv)))
         /\ (inv.fee = Fee20 /\ inv.cl.form.initialBuyMon = Str0p1)
              => inv.packed[1].tx.value = <<"2", "0", "1">> \o Rep("0", 17)

\* the second invocation of a session packed the fee its own read returned
C9_Witness ==
  /\ PackEnded
  /\ ended[1].id = 2
  /\ ended[1].inv.outcome = "packed"
  /\ ended[1].inv.fee = Fee20
  /\ bs.packedLaunch[1].tx.value = <<"2", "0", "1">> \o Rep("0", 17)

\* the invocations of signAndLaunch whose calls the state holds
SignObserved ==
  {signs[i] : i \in InFlight(signs)}
    \cup (IF ended # None /\ ended[1].kind = "sign" THEN {ended[1].inv} ELSE {})

\* C10: the create request signAndLaunch hands to the wallet carries the name,
\* symbol, token URI, amountOut, salt, target address and value of the PackedLaunch
\* it read; the integers it rebuilds from the decimal strings are the packed ones
\* (value = deploy fee + initial buy, amountOut = the packed minimum-out).
C10_RequestCarriesPacked ==
  \A inv \in SignObserved :
    \A k \in CallsOf(inv, "writeContractAsync") :
      LET req == inv.calls[k].arg
          pl == inv.cl.packedLaunch[1]
      IN  /\ req.functionName = pl.tx.function
          /\ req.args.name = pl.tx.args.name
          /\ req.args.symbol = pl.tx.args.symbol
          /\ req.args.tokenURI = pl.tx.args.tokenURI
          /\ req.args.salt = pl.tx.args.salt
          /\ req.args.actionId = pl.tx.args.actionId
          /\ req.address = pl.tx.to
          /\ BigToString(req.value) = pl.tx.value
          /\ BigToString(req.args.amountOut) = pl.tx.args.amountOut
          /\ req.value = BigAdd(BigIntOfString(pl.fee.deployFeeAmount),
                                BigIntOfString(pl.initialBuy.amount))
          /\ req.args.amountOut = BigIntOfString(pl.minTokens)
          /\ pl.tx.value = <<"1", "0", "1">> \o Rep("0", 17)
               => req.value = [neg |-> FALSE, mag |-> <<1, 0, 1>> \o Rep(0, 17)]

\* a request for a PackedLaunch with an initial buy is with the wallet
C10_Witness ==
  \E i \in InFlight(signs) :
    /\ signs[i].pc = "write"
    /\ \E k \in CallsOf(signs[i], "writeContractAsync") :
         /\ signs[i].calls[k].arg.value = [neg |-> FALSE, mag |-> <<1, 0, 1>> \o Rep(0, 17)]
         /\ signs[i].calls[k].arg.args.amountOut = QuoteOut


\* the invocation of signAndLaunch that ended in the last step, if one did
SignEnded == ended # None /\ ended[1].kind = "sign"

\* the same invocation of packLaunchTx, had the dry-run flag been the other way
FlipDryRun(inv) == [inv EXCEPT !.cl.form.dryRun = ~@]

\* every segment of packLaunchTx does the same with the flag either way
PackIgnoresDryRun(inv) ==
  /\ \A ref \in WalletClientRefs :
       FlipDryRun(PackBegin(inv, ref)) = PackBegin(FlipDryRun(inv), ref)
  /\ FlipDryRun(PackLogo(inv)) = PackLogo(FlipDryRun(inv))
  /\ FlipDryRun(PackValidate(inv)) = PackValidate(FlipDryRun(inv))
  /\ FlipDryRun(PackAfterFee(inv)) = PackAfterFee(FlipDryRun(inv))
  /\ FlipDryRun(PackAssemble(inv)) = PackAssemble(FlipDryRun(inv))

\* C11: an invocation of signAndLaunch made with the dry-run flag set ends in its
\* first step having written one log line and made no call (no signature request,
\* no transaction, no network call), and leaves packedLaunch, txHash and what the
\* wallet has seen as they were; packLaunchTx does the same whatever the flag is.
C11_DryRunSendsNothing ==
  [][/\ (SignEnded' /\ ended'[1].inv.cl.dryRun)
          => /\ Len(signs') = Len(signs) + 1
             /\ ended'[1].id = Len(signs')
             /\ Len(ended'[1].inv.lines) = 1
             /\ ended'[1].inv.calls = <<>>
             /\ ended'[1].inv.outcome = "shortcircuit"
             /\ bs'.packedLaunch = bs.packedLaunch
             /\ txHash' = txHash
             /\ sent' = sent
     /\ packs' # packs => \A i \in InFlight(packs') : PackIgnoresDryRun(packs'[i])]_vars

\* a dry run of a PackedLaunch that was packed with the flag set
C11_Witness ==
  /\ SignEnded
  /\ ended[1].inv.cl.dryRun
  /\ ended[1].inv.cl.packedLaunch # None
  /\ ended[1].inv.lines = <<"DRY RUN enabled. Skipping signature + send.">>
  /\ bs.packedLaunch = ended[1].inv.cl.packedLaunch
  /\ bs.tokenForm.dryRun


NotFoundLine == "Tx confirmed. Token address not found in logs (CurveCreate)."
HasLine(inv, line) == \E n \in DOMAIN inv.lines : inv.lines[n] = line
HasFailureLine(inv) ==
  \E n \in DOMAIN inv.lines :
    Len(inv.lines[n]) >= 13 /\ SubSeq(inv.lines[n], 1, 13) = "Launch failed"

\* C12: an invocation whose transaction was confirmed ends as a success whether or
\* not a creation event was found: it logs the 'address not found' line exactly
\* when no event was found, the token and pool lines exactly when one was, never a
\* 'Launch failed' line, and packedLaunch is null when it ends.
C12_ConfirmedIsSuccess ==
  (SignEnded /\ ended[1].inv.receipt # None)
    => LET inv == ended[1].inv
       IN  /\ inv.outcome = "sent"
           /\ ~HasFailureLine(inv)
           /\ HasLine(inv, NotFoundLine) <=> inv.created = None
           /\ inv.created # None
                => /\ HasLine(inv, "Token deployed: " \o inv.created[1].token)
                   /\ HasLine(inv, "Pool: " \o inv.created[1].pool)
           /\ bs.packedLaunch = None
           /\ isMinting = FALSE

\* a confirmed transaction whose receipt holds no creation event
C12_Witness ==
  /\ SignEnded
  /\ ended[1].inv.receipt = Some(<<>>)
  /\ ended[1].inv.created = None
  /\ HasLine(ended[1].inv, NotFoundLine)
  /\ bs.packedLaunch = None

\* the positions of the logs of a receipt that decode as a CurveCreate event
CreatePositions(r) == {k \in DOMAIN r : r[k].sig = "CurveCreate" /\ r[k].wellFormed}

\* C13: on every receipt, parseCurveCreateFromReceipt gives the token and pool of
\* the first log that decodes as CurveCreate and null when no log does, and the
\* invocation that called it does not go to its catch block, whatever logs do not
\* decode.
C13_FirstCreateEvent ==
  (SignEnded /\ ended[1].inv.receipt # None)
    => LET inv == ended[1].inv
           r == inv.receipt[1]
           first == CHOOSE k \in CreatePositions(r) : \A j \in CreatePositions(r) : k <= j
       IN  /\ inv.created = parseCurveCreateFromReceipt(r)
           /\ inv.created = (IF CreatePositions(r) = {} THEN None
                             ELSE Some([token |-> r[first].token, pool |-> r[first].pool]))
           /\ inv.outcome = "sent"
           /\ \A n \in DOMAIN inv.lines :
                inv.lines[n] # "Launch failed: waitForTransactionReceipt failed"

\* a receipt whose first two logs do not decode and whose last two are creation events
C13_Witness ==
  /\ SignEnded
  /\ ended[1].inv.receipt = Some(<<LogTransfer, LogTruncated, LogCreateB, LogCreateA>>)
  /\ ended[1].inv.created = Some([token |-> "0xT2", pool |-> "0xP2"])


\* C14: buildStep is always in 0..3; within a session it rises by one at a time, and
\* it falls only by a 'previous' button (2 to 1, 3 to 2) or by the reset (to 0).
\* A component that opens on the stored state (Reload) starts another session.
C14_StepByStep ==
  [][\/ Reload
     \/ LET a == bs.buildStep
            b == bs'.buildStep
        IN  /\ b \in 0..3
            /\ b > a => b = a + 1
            /\ b < a => \/ a \in {2, 3} /\ SetBuildStep(a - 1)
                        \/ b = 0 /\ handleResetCache]_vars

\* the render that follows a click on the reset button at a stage above 0, while
\* no pack and no submit is running: the persistence effects run in it
ResetRendered ==
  /\ rendered.pending /\ rendered.bs.buildStep > 0 /\ bs.buildStep = 0
  /\ InFlight(packs) = {} /\ InFlight(signs) = {} /\ ended = None
  /\ Render

\* C15: once handleResetCache and the persistence effects it triggers have run,
\* buildStep is 0 and the contract code, the prompt, the contract address, the
\* logos, the token form, packedLaunch and the build log are empty, in memory and
\* in the two stored items.  The token form counts as empty with the values of
\* the reset or with those of a first mount.
C15_ResetClearsAll ==
  [][ResetRendered
       => /\ \E form \in {DefaultForm, ResetForm} :
               /\ bs' = [EmptyBuilder EXCEPT !.tokenForm = form]
               /\ store'.state = Some(bs')
          /\ buildLogs' = FALSE
          /\ store'.logs = Some(FALSE)]_vars


\* C16: the builder state a fresh session loads from storage equals the stored one
\* field for field, empty fields included, and a session that opens at stage 3
\* has no contract or prompt generation running.
C16_LoadsWhatWasStored ==
  [][(Reload /\ store.state # None)
       => /\ LoadBuilder(store.state) = store.state[1]
          /\ store.state[1].buildStep = 3 => gens' = NoGens]_vars

\* the prompt generations of this component that have not returned
PromptGensInFlight(g) == g.prompt + (IF g.effect THEN 1 ELSE 0)

\* this step starts a prompt generation: the button's handler, or the effect of a
\* render or of a mount
PromptGenStarted ==
  \/ gens'.prompt > gens.prompt
  \/ Render /\ PromptDepsChanged(rendered, bs) /\ gens'.effect
  \/ Reload /\ gens'.effect

\* this step brings the builder to stage 2: a render of another stage is followed
\* by one of stage 2, or a session opens at stage 2
EntersStage2 ==
  \/ Render /\ rendered.bs.buildStep # 2 /\ bs.buildStep = 2
  \/ Reload /\ bs'.buildStep = 2

\* C17: while the prompt is missing, a prompt generation is started exactly when
\* the builder enters stage 2, one per entry and none while another is in flight;
\* entering stage 2 with a prompt starts none.
C17_OnePromptGeneration ==
  [][/\ (PromptGenStarted /\ bs.frontendPrompt = "")
          => /\ EntersStage2 /\ bs'.frontendPrompt = ""
             /\ Reload \/ PromptGensInFlight(gens) = 0
     /\ (EntersStage2 /\ bs'.frontendPrompt = "")
          => gens'.effect /\ gens'.prompt = (IF Reload THEN 0 ELSE gens.prompt)
     /\ (EntersStage2 /\ bs'.frontendPrompt # "") => ~PromptGenStarted]_vars

\* the fields of the token form for which the stage 3 effect has a default
SeededFields == {"name", "symbol", "initialBuyMon"}

\* C18: a render of a form that was on screen before (the stage 3 effect runs in
\* it when its deps changed) keeps every token-form field that holds a value, and
\* every field of a form that was seeded before (the logo set exists: what is
\* empty then was emptied by the user); it keeps an existing logo set and the
\* selection.
C18_SeedingKeepsUserValues ==
  [][(Render /\ rendered.bs.tokenForm = bs.tokenForm)
       => /\ \A field \in DOMAIN bs.tokenForm :
               (field \notin SeededFields \/ bs.tokenForm[field] # <<>> \/ bs.logos # <<>>)
                 => bs'.tokenForm[field] = bs.tokenForm[field]
          /\ bs.logos # <<>>
               => bs'.logos = bs.logos /\ bs'.selectedLogo = bs.selectedLogo]_vars


\* the fetch calls the relay made for its connection i
FetchesOf(i) == {n \in DOMAIN server.fetched : server.fetched[n].conn = i}

\* C19: an OPTIONS request, on any path, is answered with 200 and an empty body,
\* and a request of another method whose URL does not begin with /relay is
\* answered with 404; for neither does the relay call fetch.
C19_NotRelayedNotFetched ==
  \A i \in DOMAIN server.conns :
    LET conn == server.conns[i]
    IN  /\ conn.req.method = "OPTIONS"
             => /\ conn.pc = "done" /\ FetchesOf(i) = {}
                /\ conn.res[1].status = 200 /\ conn.res[1].body = ""
        /\ (conn.req.method # "OPTIONS" /\ ~StartsWith(conn.req.url, "/relay"))
             => /\ conn.pc = "done" /\ FetchesOf(i) = {}
                /\ conn.res[1].status = 404

\* a POST to /unknown was answered with 404, and an OPTIONS request to a path
\* outside /relay with 200
C19_Witness ==
  /\ \E i \in DOMAIN server.conns :
       /\ server.conns[i].req.method = "POST" /\ server.conns[i].req.url = "/unknown"
       /\ server.conns[i].res = Some(send(server.allowedOrigins, server.conns[i].req,
                                          404, "Not found", {}))
  /\ server.fetched = <<>>

\* C20: every call of fetch goes to the host of the upstream base; its URL is the
\* base followed by what the request URL has after /relay, which is empty or
\* begins with '/' or '?'; it has the method of the request and its body, and no
\* body for GET and HEAD.
C20_FetchGoesToUpstream ==
  \A n \in DOMAIN server.fetched :
    LET call == server.fetched[n].call
        req == server.conns[server.fetched[n].conn].req
        rest == SubSeq(req.url, Len("/relay") + 1, Len(req.url))
    IN  /\ UrlHost(call.url) = UrlHost(TARGET)
        /\ StartsWith(req.url, "/relay")
        /\ rest = "" \/ At(rest, 1) \in {"/", "?"}
        /\ call.url = TARGET \o rest
        /\ call.method = req.method
        /\ call.body = (IF req.method \in {"GET", "HEAD"} THEN None ELSE Some(req.body))


\* the Access-Control-Allow-Origin headers of a response, whatever the case of the name
AllowOriginHeaders(res) ==
  {h \in res.headers :
     h[1] \in {"Access-Control-Allow-Origin", "access-control-allow-origin"}}

\* the Origin matches an entry of the allow-list, as it is or without scheme and
\* trailing slash
OriginListed(allowedOrigins, origin) ==
  origin # "" /\ (origin \in allowedOrigins \/ OriginHost(origin) \in allowedOrigins)

\* C21: with an allow-list, a response of any status has an
\* Access-Control-Allow-Origin header only when the request's Origin matches an
\* entry exactly or by host, and its value is that Origin; without an allow-list
\* every response permits every origin.
C21_AllowOriginOnlyWhenListed ==
  \A i \in DOMAIN server.conns :
    server.conns[i].res # None
      => LET res == server.conns[i].res[1]
             origin == server.conns[i].req.origin
         IN  IF server.allowedOrigins # {}
             THEN AllowOriginHeaders(res) # {}
                    => /\ OriginListed(server.allowedOrigins, origin)
                       /\ AllowOriginHeaders(res) = {<<"Access-Control-Allow-Origin", origin>>}
             ELSE AllowOriginHeaders(res) = {<<"Access-Control-Allow-Origin", "*">>}


\* what the calls of the two handlers throw in the model
ThrownMessages ==
  {"walletClient is not defined", "User rejected the request.",
   "Failed to load logo image.", "Nad.fun image upload failed",
   "Nad.fun metadata upload failed", "Nad.fun salt mining failed",
   "readContract failed", "Cannot convert to a BigInt",
   "waitForTransactionReceipt failed"}

\* the failure line of a handler: 'Pack failed: ' or 'Launch failed: ' and a message
FailurePrefix(kind) == IF kind = "pack" THEN "Pack failed: " ELSE "Launch failed: "

\* C22: an invocation of packLaunchTx or signAndLaunch that ends has ended for good
\* (success, short-circuit, rejected input or failure; nothing of it runs later);
\* one that failed
\* has as its last line the failure line with the message that was thrown, has
\* assembled no PackedLaunch and waits for no receipt it has no hash for; and when
\* it has ended its flag isPacking / isMinting is false, as it is whenever no
\* invocation of the handler is running.
C22_FailuresAreCaught ==
  /\ ended # None
       => LET inv == ended[1].inv
              kind == ended[1].kind
              flag == IF kind = "pack" THEN isPacking ELSE isMinting
              invs == IF kind = "pack" THEN packs ELSE signs
          IN  /\ inv.pc = "done"
              /\ inv.outcome \in {"packed", "sent", "shortcircuit", "invalid", "failed"}
              /\ invs[ended[1].id] = Retired
              /\ flag = FALSE
              /\ inv.outcome = "failed"
                   => /\ inv.lines # <<>>
                      /\ inv.lines[Len(inv.lines)]
                           \in {FailurePrefix(kind) \o m : m \in ThrownMessages}
                      /\ kind = "pack" => inv.packed = None
                      /\ (kind = "sign" /\ inv.hash = None)
                           => CallsOf(inv, "waitForTransactionReceipt") = {}
  /\ InFlight(packs) = {} => isPacking = FALSE
  /\ InFlight(signs) = {} => isMinting = FALSE

\* a submit whose wait for the receipt threw: the failure line, the hash kept, the
\* flag false
C22_Witness ==
  /\ SignEnded
  /\ ended[1].inv.outcome = "failed"
  /\ ended[1].inv.hash # None
  /\ HasLine(ended[1].inv, "Launch failed: waitForTransactionReceipt failed")
  /\ txHash = ended[1].inv.hash
  /\ isMinting = FALSE


\* the order of the service calls of a pack
ServiceOrder ==
  <<"uploadImage", "uploadMetadata", "mineSalt", "getFeeConfig", "getInitialBuyAmountOut">>

IsServiceCall(c) == c.kind \in ServiceKinds
ServiceCalls(inv) == SelectSeq(inv.calls, IsServiceCall)

\* the invocations of packLaunchTx the state holds, with their numbers
ObservedPacks ==
  {<<i, packs[i]>> : i \in InFlight(packs)}
    \cup (IF PackEnded THEN {<<ended[1].id, ended[1].inv>>} ELSE {})

\* C23: the service calls of a pack are a beginning of the order image upload,
\* metadata upload, salt mining, fee read, quote read; each is made when the one
\* before has returned its result; the metadata upload gets the image URI this
\* pack's image upload returned, the salt mining the metadata URI this pack's
\* metadata upload returned; a pack one of whose calls threw has ended.
C23_CallsInOrder ==
  \A o \in ObservedPacks :
    LET id == o[1]
        inv == o[2]
        sc == ServiceCalls(inv)
    IN  /\ Len(sc) <= Len(ServiceOrder)
        /\ \A k \in DOMAIN sc : sc[k].kind = ServiceOrder[k]
        /\ Len(sc) >= 2 => /\ inv.imageUri = <<"image", id>>
                           /\ sc[2].arg.imageUri = inv.imageUri
        /\ Len(sc) >= 3 => /\ inv.metadataUri = <<"metadata", id>>
                           /\ sc[3].arg.metadataUri = inv.metadataUri
        /\ Len(sc) >= 4 => inv.salt = <<"salt", id, sc[3].arg.creator>>
        /\ Len(sc) >= 5 => inv.fee \in Fees
        /\ inv.threw => inv.pc = "done"

\* the second of two packs that run side by side has made its five calls and packed
C23_Witness ==
  /\ PackEnded
  /\ ended[1].id = 2
  /\ ended[1].inv.outcome = "packed"
  /\ Len(ServiceCalls(ended[1].inv)) = 5
  /\ ServiceCalls(ended[1].inv)[2].arg.imageUri = <<"image", 2>>


\* an artifact of the concept is cached: contract code, prompt, contract address
\* or logos
ArtifactCached(b) ==
  b.contractCode # "" \/ b.frontendPrompt # "" \/ b.contractAddress # Null \/ b.logos # <<>>

Artifacts(b) ==
  <<b.contractCode, b.frontendPrompt, b.contractAddress, b.logos, b.selectedLogo,
    b.tokenForm, b.packedLaunch>>

\* C24: a click on the start button at stage 0 starts a contract generation exactly
\* when no artifact is cached.  With one it goes to stage 1 or keeps a later
\* stage, starts nothing, keeps every artifact and logs a line; without one it
\* goes to stage 1, starts one generation, and the artifacts are empty.
C24_GeneratesIffNothingCached ==
  [][handleStartBuild
       => IF ArtifactCached(rendered.bs)
          THEN /\ gens' = gens
               /\ bs'.buildStep = (IF bs.buildStep > 0 THEN bs.buildStep ELSE 1)
               /\ Artifacts(bs') = Artifacts(bs)
               /\ buildLogs'
          ELSE /\ gens'.contract = gens.contract + 1
               /\ bs'.buildStep = 1
               /\ ~ArtifactCached(bs')
               /\ buildLogs']_vars


\* a header of the CORS protocol, by its name
CorsName(name) ==
  StartsWith(name, "access-control-") \/ StartsWith(name, "Access-Control-")

\* C25: a response the relay forwards has the status and the body of the upstream
\* response, none of the upstream's content-encoding, content-length and
\* transfer-encoding headers, and no Access-Control-* header but those the relay
\* sets itself.
C25_ForwardedResponseIsClean ==
  \A i \in DOMAIN server.conns :
    server.conns[i].upstream # None
      => LET conn == server.conns[i]
             res == conn.res[1]
             own == send(server.allowedOrigins, conn.req, res.status, res.body, {}).headers
         IN  /\ res.status = conn.upstream[1].status
             /\ res.body = conn.upstream[1].body
             /\ \A h \in res.headers :
                  /\ h[1] \notin {"content-encoding", "content-length", "transfer-encoding"}
                  /\ CorsName(h[1]) => h \in own


\* C26: the builder is never at stage 1 with empty contract code while no
\* contract generation is in flight.
C26_Stage1HasCodeOrGeneration ==
  ~(bs.buildStep = 1 /\ bs.contractCode = "" /\ gens.contract = 0)


\* C27: a submit that ends as sent leaves a stored PackedLaunch other than the
\* one it sent (one that a pack stored while the submit was waiting) in place.
C27_SubmitClearsOnlyWhatItSent ==
  [][(/\ ended' # None
      /\ ended'[1].kind = "sign"
      /\ ended'[1].inv.alive
      /\ ended'[1].inv.outcome = "sent"
      /\ bs.packedLaunch # None
      /\ bs.packedLaunch # ended'[1].inv.cl.packedLaunch)
       => bs'.packedLaunch = bs.packedLaunch]_vars


\* the creator a salt was mined for
CreatorOf(salt) == salt[3]

\* C28: the account of every create request handed to the wallet is the creator
\* that the salt of the request was mined for.
C28_SignerIsSaltCreator ==
  \A inv \in SignObserved :
    \A k \in CallsOf(inv, "writeContractAsync") :
      inv.calls[k].arg.account = CreatorOf(inv.calls[k].arg.args.salt)


\* what the claim says a reset leaves of the builder
BuilderCleared(b) ==
  /\ b.buildStep = 0
  /\ b.contractCode = ""
  /\ b.frontendPrompt = ""
  /\ b.packedLaunch = None

\* a step in which an operation started earlier delivers a result
LateResult ==
  \/ \E ok \in BOOLEAN : ContractReturn(ok)
  \/ \E viaEffect \in BOOLEAN, ok \in BOOLEAN : PromptReturn(viaEffect, ok)
  \/ PackReturns
  \/ SignReturns

\* C29: while the builder is at stage 0 with empty contract code, prompt and
\* packedLaunch (where an operation can be in flight only because a reset came
\* after its start), a result that arrives leaves the builder so.
C29_LateResultsChangeNothing ==
  [][(BuilderCleared(bs) /\ LateResult) => BuilderCleared(bs')]_vars


\* C30: a PackedLaunch is of the network whose chain the wallet of its pack was
\* found to be on, and holds that network's contract addresses; a create request
\* goes to the router of the network whose chain the request names, which is the
\* chain the wallet of the submit was found to be on.
C30_CheckedChainIsNetworkChain ==
  /\ \A inv \in Observed :
       inv.packed # None
         => /\ NetworkChain[inv.packed[1].network] = inv.cl.wallet.chainId
            /\ inv.packed[1].contracts = NADFUN_CONTRACTS[inv.packed[1].network]
  /\ \A inv \in SignObserved :
       \A k \in CallsOf(inv, "writeContractAsync") :
         LET req == inv.calls[k].arg
         IN  /\ req.chainId = inv.cl.wallet.chainId
             /\ \E n \in DOMAIN NADFUN_CONTRACTS :
                  /\ NetworkChain[n] = req.chainId
                  /\ req.address = NADFUN_CONTRACTS[n].BONDING_CURVE_ROUTER

====
